---- MODULE Spec2Model ----
(***************************************************************************)
(* Antenna placement engine: greedy constructors, local-search operators   *)
(* and annealing drivers, modelled from the Python sources.                *)
(*                                                                         *)
(* A dataset is a sequence of buildings; a solution is a sequence of       *)
(* antennas [type, x, y, buildings].  Each routine is run one loop         *)
(* iteration per step; alg names the routine, pc its position.             *)
(***************************************************************************)
EXTENDS Integers, Sequences, FiniteSets, TLC

VARIABLES
    alg,        \* the routine being run
    pc,         \* position in the routine
    buildings,  \* dataset['buildings']
    uncovered,  \* ids not yet covered (complement of the 'covered' set)
    antennas,   \* the solution under construction / the working list
    idx,        \* loop index of the routine's outer for-loop
    aux         \* routine-local state (records), see each routine

vars == <<alg, pc, buildings, uncovered, antennas, idx, aux>>

---------------------------------------------------------------------------
(* Bounds of the model *)

MaxBuildings == 3

(* Passes through a covering loop that are followed beyond one per building. *)
ExtraPasses == 2

(* max_iterations of the annealing drivers. *)
MaxIterations == 2

(* Coordinates and population readings the datasets are drawn from. *)
Points == {<<0, 0>>, <<0, 120>>, <<400, 0>>}

(* (peak, off-peak, night) readings; every demand here is at most 5000. *)
ServableProfiles == {<<100, 60, 20>>, <<1000, 3000, 500>>, <<0, 0, 4000>>}

(* Readings including a demand no type can hold. *)
AnyProfiles == {<<100, 60, 20>>, <<0, 0, 4000>>, <<6000, 10, 10>>}

---------------------------------------------------------------------------
(* ANTENNA_TYPES *)

Types == {"Nano", "Spot", "Density", "MaxRange"}

Range(t) ==
    CASE t = "Nano" -> 50 [] t = "Spot" -> 100 [] t = "Density" -> 150 [] t = "MaxRange" -> 400

Capacity(t) ==
    CASE t = "Nano" -> 200 [] t = "Spot" -> 800 [] t = "Density" -> 5000 [] t = "MaxRange" -> 3500

Cost(t) ==
    CASE t = "Nano" -> 5000 [] t = "Spot" -> 15000 [] t = "Density" -> 30000 [] t = "MaxRange" -> 40000

---------------------------------------------------------------------------
(* Helpers *)

Max2(a, b) == IF a >= b THEN a ELSE b

get_max_pop(b) == Max2(b.pp, Max2(b.po, b.pn))

dist_sq(x1, y1, x2, y2) == (x1 - x2) * (x1 - x2) + (y1 - y2) * (y1 - y2)

(* bmap = {b['id']: b for b in buildings}; the datasets number their      *)
(* buildings 1..n in list order, so the id is the index.                   *)
BMap(bid) == buildings[bid]

(* A Python list built by a comprehension. *)
AsList(f) == f \o <<>>

AllIds == {buildings[i].id : i \in 1..Len(buildings)}

Pop(bid) == get_max_pop(BMap(bid))

InRangeDoubled(x, y, t, bid) ==
    dist_sq(x, y, BMap(bid).x, BMap(bid).y) <= 4 * Range(t) * Range(t)

InRange(x, y, t, bid) == dist_sq(x, y, BMap(bid).x, BMap(bid).y) <= Range(t) * Range(t)

Elems(s) == {s[i] : i \in 1..Len(s)}

RECURSIVE SumPop(_)
SumPop(bids) == IF bids = <<>> THEN 0 ELSE Pop(Head(bids)) + SumPop(Tail(bids))

RECURSIVE SetToSeq(_)
(* Iteration over a set of ids, in ascending id order. *)
SetToSeq(S) ==
    IF S = {} THEN <<>>
    ELSE LET m == CHOOSE v \in S : \A w \in S : v <= w
         IN  <<m>> \o SetToSeq(S \ {m})

(* sorted(seq) under the strict order LT: stable, ascending.  Element i    *)
(* goes to the place given by the number of elements that sort before it.  *)
SortLT(seq, LT(_, _)) ==
    LET n == Len(seq)
        before(i) == {j \in 1..n : \/ LT(seq[j], seq[i])
                                   \/ (~LT(seq[i], seq[j]) /\ j < i)}
    IN  AsList([k \in 1..n |-> seq[CHOOSE i \in 1..n : Cardinality(before(i)) = k - 1]])

(* list.sort(key=Key) *)
SortBy(seq, Key(_)) == SortLT(seq, LAMBDA a, b : Key(a) < Key(b))

(* Tuple comparison (a1, a2) < (b1, b2). *)
PairLT(a, b) == a[1] < b[1] \/ (a[1] = b[1] /\ a[2] < b[2])

(* Mutant: the largest demand first. *)
LargestFirst(bids) == SortLT(bids, LAMBDA a, b : Pop(a) > Pop(b))

(* in_range.sort(key=lambda x: x[1]) *)
SortByPop(bids) == SortBy(bids, Pop)

PackFitsAlone(total, pop, cap) == pop <= cap

PackFits(total, pop, cap) == total + pop <= cap

RECURSIVE PackFrom(_, _, _, _)
(* for bid, pop in in_range: if total_pop + pop <= capacity: select *)
PackFrom(bids, cap, sel, total) ==
    IF bids = <<>> THEN [selected |-> sel, total_pop |-> total]
    ELSE IF PackFits(total, Pop(Head(bids)), cap)
         THEN PackFrom(Tail(bids), cap, Append(sel, Head(bids)), total + Pop(Head(bids)))
         ELSE PackFrom(Tail(bids), cap, sel, total)

Pack(in_range, t) == PackFrom(SortByPop(in_range), Capacity(t), <<>>, 0)

(* Buildings of the sequence cand lying within t's radius of (x, y). *)
InRangeOf(x, y, t, cand) == SelectSeq(cand, LAMBDA bid : InRange(x, y, t, bid))

(* Scores are quotients sn / sd; a > b is decided by cross-multiplication. *)
ScoreGT(a, b) == a.sn * b.sd > b.sn * a.sd

RECURSIVE FirstBest(_, _)
(* Running maximum with strict '>' over a sequence of options; best starts *)
(* as None (<<>>) with best_score = -1, so the first option is always taken. *)
FirstBest(opts, best) ==
    IF opts = <<>> THEN best
    ELSE IF best = <<>> \/ ScoreGT(Head(opts), best[1])
         THEN FirstBest(Tail(opts), <<Head(opts)>>)
         ELSE FirstBest(Tail(opts), best)

RECURSIVE Flatten(_)
Flatten(ss) == IF ss = <<>> THEN <<>> ELSE Head(ss) \o Flatten(Tail(ss))

Antenna(t, x, y, bids) == [type |-> t, x |-> x, y |-> y, buildings |-> bids]

(* Mutant: only the first selected building is marked covered. *)
DiscardFirstOnly(unc, ant) == unc \ {ant.buildings[1]}

(* for bid in best['buildings']: uncovered.discard(bid) *)
Discard(unc, ant) == unc \ Elems(ant.buildings)

---------------------------------------------------------------------------
(* Datasets *)

Building(i, p, r) == [id |-> i, x |-> p[1], y |-> p[2], pp |-> r[1], po |-> r[2], pn |-> r[3]]

Datasets(points, profiles) ==
    UNION {
        {AsList([i \in 1..n |-> Building(i, ps[i], rs[i])]) :
            ps \in [1..n -> points], rs \in [1..n -> profiles]}
        : n \in 1..MaxBuildings}

InitData(algs, profiles) ==
    /\ alg \in algs
    /\ pc = "start"
    /\ buildings \in Datasets(Points, profiles)
    /\ uncovered = {buildings[i].id : i \in 1..Len(buildings)}
    /\ antennas = <<>>
    /\ idx = 1
    /\ aux = <<>>

---------------------------------------------------------------------------
(* Candidate antennas of the greedy constructors *)

ListIds == AsList([i \in 1..Len(buildings) |-> buildings[i].id])

(* The ids of seq that are still uncovered, in seq's order. *)
Uncov(seq, unc) == SelectSeq(seq, LAMBDA bid : bid \in unc)

Option(t, x, y, bids, n, d) ==
    [type |-> t, x |-> x, y |-> y, buildings |-> bids, sn |-> n, sd |-> d]

(* Mutant: the score of solve_advanced without the division by the cost. *)
CostBlindScore == [w |-> 10000, p |-> 1, bycost |-> FALSE]

(* The scoring formulas of the constructors, as                            *)
(* (len(selected) * w + total_pop * p) / (cost or 1).  Costs are counted   *)
(* in units of 5000, which every cost is a multiple of.                    *)
AdvancedScore == [w |-> 10000, p |-> 1, bycost |-> TRUE]
GreedyScore   == [w |-> 1000, p |-> 1, bycost |-> TRUE]
PerCostScore  == [w |-> 1, p |-> 0, bycost |-> TRUE]
CountScore    == [w |-> 1, p |-> 0, bycost |-> FALSE]

AntennaOf(o) == Antenna(o.type, o.x, o.y, o.buildings)

(* One type tried at (x, y): in-range candidates, packed smallest first,   *)
(* scored.  Zero or one option.                                            *)
PackedOption(x, y, t, p, sc) ==
    IF p.selected = <<>> THEN <<>>
    ELSE <<Option(t, x, y, p.selected,
                  Len(p.selected) * sc.w + p.total_pop * sc.p,
                  IF sc.bycost THEN Cost(t) \div 5000 ELSE 1)>>

TypeOption(x, y, t, cand, sc) ==
    PackedOption(x, y, t, Pack(InRangeOf(x, y, t, cand), t), sc)

OptionsAt(x, y, order, cand, sc) ==
    Flatten(AsList([k \in 1..Len(order) |-> TypeOption(x, y, order[k], cand, sc)]))

(* Fallback of the constructors: the first type of order whose capacity    *)
(* holds one building, or none.                                            *)
FirstOf(s) == IF s = <<>> THEN <<>> ELSE <<Head(s)>>

FirstFitting(order, pop) == FirstOf(SelectSeq(order, LAMBDA t : Capacity(t) >= pop))

SingleAntenna(ts, bid) ==
    IF ts = <<>> THEN <<>> ELSE <<Antenna(ts[1], BMap(bid).x, BMap(bid).y, <<bid>>)>>

(* The antenna committed by one pass of a covering loop: the best option,  *)
(* else the fallback on building bid, else none.                           *)
OrFallback(best, bid) ==
    IF best # <<>> THEN <<AntennaOf(best[1])>>
    ELSE SingleAntenna(FirstFitting(<<"Nano", "Spot", "Density", "MaxRange">>, Pop(bid)), bid)

NanoFirst == <<"Nano", "Spot", "Density", "MaxRange">>

MinId(S) == CHOOSE v \in S : \A w \in S : v <= w

---------------------------------------------------------------------------
(* advanced_solution.solve_advanced *)

find_best_antenna(x, y, uncovered_ids) ==
    FirstBest(OptionsAt(x, y, <<"Density", "MaxRange", "Spot", "Nano">>,
                        SetToSeq(uncovered_ids), AdvancedScore), <<>>)

(* Phase 1: every building above 3500 gets a Density antenna of its own. *)
AdvancedPhase1 ==
    /\ alg = "solve_advanced" /\ pc = "start"
    /\ \E high \in {SelectSeq(ListIds, LAMBDA bid : Pop(bid) > 3500)} :
           /\ antennas' = AsList([k \in 1..Len(high) |->
                             Antenna("Density", BMap(high[k]).x, BMap(high[k]).y, <<high[k]>>)])
           /\ uncovered' = uncovered \ Elems(high)
    /\ pc' = "loop"
    /\ UNCHANGED <<alg, buildings, idx, aux>>

AdvancedBest(cands, unc) ==
    FirstBest(Flatten(AsList([k \in 1..Len(cands) |->
        find_best_antenna(BMap(cands[k]).x, BMap(cands[k]).y, unc)])), <<>>)

(* Phase 2: one pass through the body of 'while uncovered'; the fallback   *)
(* takes next(iter(uncovered)).  With no antenna, best_antenna['buildings'] *)
(* raises.                                                                 *)
AdvancedIterate ==
    /\ alg = "solve_advanced" /\ pc = "loop" /\ uncovered # {}
    /\ \E ant \in {OrFallback(AdvancedBest(SetToSeq(uncovered), uncovered), MinId(uncovered))} :
          IF ant # <<>>
          THEN /\ antennas' = Append(antennas, ant[1])
               /\ uncovered' = Discard(uncovered, ant[1])
               /\ pc' = "loop"
          ELSE /\ pc' = "crashed"
               /\ UNCHANGED <<antennas, uncovered>>
    /\ idx' = idx + 1
    /\ UNCHANGED <<alg, buildings, aux>>

AdvancedReturn ==
    /\ alg = "solve_advanced" /\ pc = "loop" /\ uncovered = {}
    /\ pc' = "done"
    /\ UNCHANGED <<alg, buildings, uncovered, antennas, idx, aux>>

---------------------------------------------------------------------------
(* optimized_solution.greedy_solution *)

GreedyBest(sites) ==
    FirstBest(Flatten(AsList([k \in 1..Len(sites) |->
        OptionsAt(BMap(sites[k]).x, BMap(sites[k]).y, NanoFirst, sites, GreedyScore)])), <<>>)

(* One pass through the body of 'while uncovered': every uncovered         *)
(* building as a site, every type, over the uncovered buildings in list    *)
(* order.  With no option and no fitting type, best_option['buildings']    *)
(* raises.                                                                 *)
GreedyIterate ==
    /\ alg = "greedy_solution" /\ pc = "start" /\ uncovered # {}
    /\ \E ant \in {OrFallback(GreedyBest(Uncov(ListIds, uncovered)), MinId(uncovered))} :
          IF ant # <<>>
          THEN /\ antennas' = Append(antennas, ant[1])
               /\ uncovered' = Discard(uncovered, ant[1])
               /\ pc' = "start"
          ELSE /\ pc' = "crashed"
               /\ UNCHANGED <<antennas, uncovered>>
    /\ idx' = idx + 1
    /\ UNCHANGED <<alg, buildings, aux>>

GreedyReturn ==
    /\ alg = "greedy_solution" /\ pc = "start" /\ uncovered = {}
    /\ pc' = "done"
    /\ UNCHANGED <<alg, buildings, uncovered, antennas, idx, aux>>

---------------------------------------------------------------------------
(* Properties of solutions *)

RECURSIVE Count(_, _)
Count(s, v) == IF s = <<>> THEN 0 ELSE (IF Head(s) = v THEN 1 ELSE 0) + Count(Tail(s), v)

(* Number of times bid occurs in the building lists of sol. *)
Occurrences(sol, bid) == Count(Flatten(AsList([k \in 1..Len(sol) |-> sol[k].buildings])), bid)

Partition(sol) == \A bid \in AllIds : Occurrences(sol, bid) = 1

CapacityOk(a) == SumPop(a.buildings) <= Capacity(a.type)

RangeOk(a) ==
    \A k \in 1..Len(a.buildings) :
        dist_sq(a.x, a.y, BMap(a.buildings[k]).x, BMap(a.buildings[k]).y)
            <= Range(a.type) * Range(a.type)

DemandsServable == \A bid \in AllIds : Pop(bid) <= 5000

---------------------------------------------------------------------------
(* Looped greedy constructors: solve_advanced and greedy_solution *)

InitLooped == InitData({"solve_advanced", "greedy_solution"}, ServableProfiles)

NextLooped ==
    \/ AdvancedPhase1
    \/ AdvancedIterate
    \/ AdvancedReturn
    \/ GreedyIterate
    \/ GreedyReturn

SpecLooped == InitLooped /\ [][NextLooped]_vars

(* C1: on a dataset whose demands are all at most 5000, the solution       *)
(* returned by solve_advanced or greedy_solution holds every building id   *)
(* in exactly one building list: none missing, none twice.                 *)
C1_LoopedPartition ==
    (pc = "done" /\ DemandsServable) => Partition(antennas)

C1_Witness ==
    /\ pc = "done" /\ DemandsServable /\ alg = "greedy_solution"
    /\ Len(buildings) = 3 /\ Len(antennas) = 2
    /\ \E k \in 1..Len(antennas) : Len(antennas[k].buildings) = 2

---------------------------------------------------------------------------
(* Grids of buildings: grid[(x // cell_size, y // cell_size)] *)

CellOf(bid, cs) == <<BMap(bid).x \div cs, BMap(bid).y \div cs>>

(* grid[c]: the buildings of cell c, in list order. *)
CellList(c, cs) == SelectSeq(ListIds, LAMBDA bid : CellOf(bid, cs) = c)

(* for dx in range(-k, k + 1): for dy in range(-k, k + 1): grid[(cx + dx, cy + dy)] *)
(* The buildings met: those of the cells within k of c each way, cell by   *)
(* cell in ascending (dx, dy), each cell in list order.                    *)
GridScan(c, k, cs) ==
    SortLT(SelectSeq(ListIds, LAMBDA bid :
               /\ CellOf(bid, cs)[1] \in (c[1] - k)..(c[1] + k)
               /\ CellOf(bid, cs)[2] \in (c[2] - k)..(c[2] + k)),
           LAMBDA p, q : PairLT(CellOf(p, cs), CellOf(q, cs)))

(* cells_check = int(specs['range'] / cell_size) + 1 *)
CellsCheck(t, cs) == (Range(t) \div cs) + 1

(* The options of a site b over the types of order, the candidates being   *)
(* the uncovered buildings of the cells scanned around b's cell, K(t)      *)
(* cells each way for type t.                                              *)
GridOptionsAt(b, order, K, cs, unc, sc) ==
    Flatten(AsList([k \in 1..Len(order) |->
        TypeOption(BMap(b).x, BMap(b).y, order[k],
                   Uncov(GridScan(CellOf(b, cs), K[order[k]], cs), unc), sc)]))

(* grid.keys(): the cells in order of first appearance in the list. *)
CellKeys(cs) ==
    LET firsts == SelectSeq(ListIds, LAMBDA i :
                      \A j \in 1..(i - 1) : CellOf(ListIds[j], cs) # CellOf(ListIds[i], cs))
    IN  AsList([k \in 1..Len(firsts) |-> CellOf(ListIds[firsts[k]], cs)])

---------------------------------------------------------------------------
(* best_solution.solve_maxrange_first *)

(* neighbors: the buildings of the 5 x 5 cells around b. *)
Neighbors(bid) == Len(GridScan(CellOf(bid, 200), 2, 200))

NegNeighbors(bid) == 0 - Neighbors(bid)

(* building_priority.sort(key=lambda x: -x[1]) *)
MRFStart ==
    /\ alg = "solve_maxrange_first" /\ pc = "start"
    /\ aux' = SortBy(ListIds, NegNeighbors)
    /\ pc' = "loop"
    /\ UNCHANGED <<alg, buildings, uncovered, antennas, idx>>

MRFBest(b, unc) ==
    FirstBest(GridOptionsAt(b, <<"MaxRange", "Density", "Spot", "Nano">>,
                            [t \in Types |-> CellsCheck(t, 200)], 200, unc, CountScore), <<>>)

(* One pass through 'for b, _ in building_priority'. *)
MRFVisit ==
    /\ alg = "solve_maxrange_first" /\ pc = "loop" /\ idx <= Len(aux)
    /\ IF aux[idx] \notin uncovered
       THEN UNCHANGED <<antennas, uncovered>>
       ELSE \E best \in {MRFBest(aux[idx], uncovered)} :
              IF best # <<>>
              THEN /\ antennas' = Append(antennas, AntennaOf(best[1]))
                   /\ uncovered' = Discard(uncovered, best[1])
              ELSE UNCHANGED <<antennas, uncovered>>
    /\ idx' = idx + 1
    /\ UNCHANGED <<alg, pc, buildings, aux>>

MRFReturn ==
    /\ alg = "solve_maxrange_first" /\ pc = "loop" /\ idx > Len(aux)
    /\ pc' = "done"
    /\ UNCHANGED <<alg, buildings, uncovered, antennas, idx, aux>>

---------------------------------------------------------------------------
(* suburbia_rebuild.build_solution, strategy 'density_first' *)

NegCellSize(c) == 0 - Len(CellList(c, 100))

(* cell_order = sorted(grid.keys(), key=lambda c: -len(grid[c])); the      *)
(* buildings cell by cell.                                                 *)
BSStart ==
    /\ alg = "build_solution" /\ pc = "start"
    /\ \E order \in {SortBy(CellKeys(100), NegCellSize)} :
         aux' = Flatten(AsList([k \in 1..Len(order) |-> CellList(order[k], 100)]))
    /\ pc' = "loop"
    /\ UNCHANGED <<alg, buildings, uncovered, antennas, idx>>

BSBest(b, unc) ==
    FirstBest(GridOptionsAt(b, <<"Density", "Spot", "Nano", "MaxRange">>,
                            [t \in Types |-> CellsCheck(t, 100)], 100, unc, PerCostScore), <<>>)

(* if best: ... else: the fallback on b itself, which places nothing when  *)
(* no type holds b.                                                        *)
BSChoice(best, b) ==
    IF best # <<>> THEN <<AntennaOf(best[1])>>
    ELSE SingleAntenna(FirstFitting(<<"Nano", "Spot", "Density", "MaxRange">>, Pop(b)), b)

(* One pass through 'for b in ordered_buildings'. *)
BSVisit ==
    /\ alg = "build_solution" /\ pc = "loop" /\ idx <= Len(aux)
    /\ IF aux[idx] \notin uncovered
       THEN UNCHANGED <<antennas, uncovered>>
       ELSE \E ant \in {BSChoice(BSBest(aux[idx], uncovered), aux[idx])} :
              IF ant # <<>>
              THEN /\ antennas' = Append(antennas, ant[1])
                   /\ uncovered' = Discard(uncovered, ant[1])
              ELSE UNCHANGED <<antennas, uncovered>>
    /\ idx' = idx + 1
    /\ UNCHANGED <<alg, pc, buildings, aux>>

BSReturn ==
    /\ alg = "build_solution" /\ pc = "loop" /\ idx > Len(aux)
    /\ pc' = "done"
    /\ UNCHANGED <<alg, buildings, uncovered, antennas, idx, aux>>

---------------------------------------------------------------------------
(* Single-pass constructors: solve_maxrange_first and build_solution *)

InitSinglePass == InitData({"solve_maxrange_first", "build_solution"}, ServableProfiles)

NextSinglePass ==
    \/ MRFStart
    \/ MRFVisit
    \/ MRFReturn
    \/ BSStart
    \/ BSVisit
    \/ BSReturn

SpecSinglePass == InitSinglePass /\ [][NextSinglePass]_vars

(* C2: on a dataset whose demands are all at most 5000, the solution       *)
(* returned by a single-pass constructor leaves no building out: every id  *)
(* of the dataset is in some antenna's building list.                      *)
C2_SinglePassCoversAll ==
    (pc = "done" /\ DemandsServable) =>
        \A bid \in AllIds : Occurrences(antennas, bid) >= 1

---------------------------------------------------------------------------
(* best_solution.solve_sweep(dataset, prefer_type) *)

(* sorted(buildings, key=lambda b: (b['x'], b['y'])) *)
ByPosition == SortLT(ListIds, LAMBDA a, b : PairLT(<<BMap(a).x, BMap(a).y>>, <<BMap(b).x, BMap(b).y>>))

(* aux.cur[i] is the cur_pop kept beside antenna i. *)
SweepStart(prefs) ==
    /\ alg = "solve_sweep" /\ pc = "start"
    /\ \E pt \in prefs : aux' = [order |-> ByPosition, prefer |-> pt, cur |-> <<>>]
    /\ pc' = "loop"
    /\ UNCHANGED <<alg, buildings, uncovered, antennas, idx>>

SweepAccepts(ant, cur_pop, bid) ==
    /\ ~(dist_sq(ant.x, ant.y, BMap(bid).x, BMap(bid).y) > Range(ant.type) * Range(ant.type))
    /\ ~(cur_pop + Pop(bid) > Capacity(ant.type))

(* for i in range(max(0, len(antennas) - 100), len(antennas)): first fit *)
SweepTarget(bid) ==
    LET n == Len(antennas)
        from == IF n - 100 > 0 THEN n - 100 + 1 ELSE 1
        ok   == {i \in from..n : SweepAccepts(antennas[i], aux.cur[i], bid)}
    IN  IF ok = {} THEN 0 ELSE CHOOSE i \in ok : \A j \in ok : i <= j

SweepNewType(pop, prefer) ==
    IF pop > 3500 THEN "Density" ELSE IF pop > 800 THEN "MaxRange" ELSE prefer

(* One pass through 'for b in sorted_b'. *)
SweepVisit ==
    /\ alg = "solve_sweep" /\ pc = "loop" /\ idx <= Len(aux.order)
    /\ \E bid \in {aux.order[idx]} :
       IF bid \notin uncovered
       THEN UNCHANGED <<antennas, uncovered, aux>>
       ELSE \E i \in {SweepTarget(bid)} :
            /\ IF i # 0
               THEN /\ antennas' = [antennas EXCEPT ![i].buildings = Append(@, bid)]
                    /\ aux' = [aux EXCEPT !.cur[i] = @ + Pop(bid)]
               ELSE /\ antennas' = Append(antennas,
                            Antenna(SweepNewType(Pop(bid), aux.prefer), BMap(bid).x, BMap(bid).y, <<bid>>))
                    /\ aux' = [aux EXCEPT !.cur = Append(@, Pop(bid))]
            /\ uncovered' = uncovered \ {bid}
    /\ idx' = idx + 1
    /\ UNCHANGED <<alg, pc, buildings>>

SweepReturn ==
    /\ alg = "solve_sweep" /\ pc = "loop" /\ idx > Len(aux.order)
    /\ pc' = "done"
    /\ UNCHANGED <<alg, buildings, uncovered, antennas, idx, aux>>

---------------------------------------------------------------------------
(* Capacity of the solutions of solve_advanced and solve_sweep *)

InitCapacity == InitData({"solve_advanced", "solve_sweep"}, ServableProfiles)

NextCapacity ==
    \/ AdvancedPhase1
    \/ AdvancedIterate
    \/ AdvancedReturn
    \/ SweepStart({"Density", "MaxRange"})
    \/ SweepVisit
    \/ SweepReturn

SpecCapacity == InitCapacity /\ [][NextCapacity]_vars

(* C3: in every solution returned by solve_advanced, or by solve_sweep     *)
(* with prefer_type Density or MaxRange, on demands of at most 5000, each  *)
(* antenna's total assigned demand is at most its type's capacity.         *)
C3_CapacityInvariant ==
    (pc = "done" /\ DemandsServable) =>
        \A k \in 1..Len(antennas) : CapacityOk(antennas[k])

C3_Witness ==
    /\ pc = "done" /\ alg = "solve_sweep" /\ aux.prefer = "MaxRange"
    /\ Len(antennas) = 2
    /\ \E k \in 1..Len(antennas) :
         Len(antennas[k].buildings) = 2 /\ SumPop(antennas[k].buildings) > 3000

---------------------------------------------------------------------------
(* best_solution.solve_grid(dataset, cell_size=300) *)

(* The uncovered buildings of cell c, in list order: cell_buildings. *)
CellUnc(c, cs) == Uncov(CellList(c, cs), uncovered)

MorePasses == aux.passes < Len(buildings) + ExtraPasses

(* for cell in sorted(grid.keys()) *)
GridStart ==
    /\ alg = "solve_grid" /\ pc = "start"
    /\ aux' = [cells |-> SortLT(CellKeys(300), PairLT), passes |-> 0]
    /\ pc' = "loop"
    /\ UNCHANGED <<alg, buildings, uncovered, antennas, idx>>

(* The types tried at the anchor, over the uncovered buildings of the cell *)
(* and its eight neighbours.                                               *)
GridBest(anchor, unc) ==
    FirstBest(GridOptionsAt(anchor, <<"MaxRange", "Density", "Spot", "Nano">>,
                            [t \in Types |-> 1], 300, unc, PerCostScore), <<>>)

(* One pass through the body of 'while cell_buildings'.  When nothing is   *)
(* placed, cell_buildings is left as it was.                               *)
GridPass ==
    /\ alg = "solve_grid" /\ pc = "loop" /\ idx <= Len(aux.cells)
    /\ CellUnc(aux.cells[idx], 300) # <<>>
    /\ MorePasses
    /\ \E anchor \in {CellUnc(aux.cells[idx], 300)[1]} :
       \E ant \in {OrFallback(GridBest(anchor, uncovered), anchor)} :
          IF ant # <<>>
          THEN /\ antennas' = Append(antennas, ant[1])
               /\ uncovered' = Discard(uncovered, ant[1])
          ELSE UNCHANGED <<antennas, uncovered>>
    /\ aux' = [aux EXCEPT !.passes = @ + 1]
    /\ UNCHANGED <<alg, pc, buildings, idx>>

GridNextCell ==
    /\ alg = "solve_grid" /\ pc = "loop" /\ idx <= Len(aux.cells)
    /\ CellUnc(aux.cells[idx], 300) = <<>>
    /\ idx' = idx + 1
    /\ UNCHANGED <<alg, pc, buildings, uncovered, antennas, aux>>

GridReturn ==
    /\ alg = "solve_grid" /\ pc = "loop" /\ idx > Len(aux.cells)
    /\ pc' = "done"
    /\ UNCHANGED <<alg, buildings, uncovered, antennas, idx, aux>>

---------------------------------------------------------------------------
(* ultra_fast_solution.solve_density_first *)

(* for cell, cell_buildings in grid.items() *)
DFStart ==
    /\ alg = "solve_density_first" /\ pc = "start"
    /\ aux' = [cells |-> CellKeys(150), passes |-> 0]
    /\ pc' = "loop"
    /\ UNCHANGED <<alg, buildings, uncovered, antennas, idx>>

(* uncovered_here: the cell's buildings sorted by population, uncovered. *)
UncoveredHere(c) == SortByPop(CellUnc(c, 150))

DFBest(anchor, here) ==
    FirstBest(OptionsAt(BMap(anchor).x, BMap(anchor).y,
                        <<"Density", "MaxRange", "Spot", "Nano">>, here, PerCostScore), <<>>)

(* One pass through the body of 'while cell_buildings'. *)
DFPass ==
    /\ alg = "solve_density_first" /\ pc = "loop" /\ idx <= Len(aux.cells)
    /\ CellUnc(aux.cells[idx], 150) # <<>>
    /\ MorePasses
    /\ \E here \in {UncoveredHere(aux.cells[idx])} :
       \E ant \in {OrFallback(DFBest(here[1], here), here[1])} :
          IF ant # <<>>
          THEN /\ antennas' = Append(antennas, ant[1])
               /\ uncovered' = Discard(uncovered, ant[1])
          ELSE UNCHANGED <<antennas, uncovered>>
    /\ aux' = [aux EXCEPT !.passes = @ + 1]
    /\ UNCHANGED <<alg, pc, buildings, idx>>

DFNextCell ==
    /\ alg = "solve_density_first" /\ pc = "loop" /\ idx <= Len(aux.cells)
    /\ CellUnc(aux.cells[idx], 150) = <<>>
    /\ idx' = idx + 1
    /\ UNCHANGED <<alg, pc, buildings, uncovered, antennas, aux>>

DFReturn ==
    /\ alg = "solve_density_first" /\ pc = "loop" /\ idx > Len(aux.cells)
    /\ pc' = "done"
    /\ UNCHANGED <<alg, buildings, uncovered, antennas, idx, aux>>

---------------------------------------------------------------------------
(* ultra_fast_solution.solve_simple *)

SimpleStart ==
    /\ alg = "solve_simple" /\ pc = "start"
    /\ aux' = ByPosition
    /\ pc' = "loop"
    /\ UNCHANGED <<alg, buildings, uncovered, antennas, idx>>

(* In range, and the antenna's recomputed population plus pop fits. *)
SimpleAccepts(ant, bid) ==
    /\ ~(dist_sq(ant.x, ant.y, BMap(bid).x, BMap(bid).y) > Range(ant.type) * Range(ant.type))
    /\ SumPop(ant.buildings) + Pop(bid) <= Capacity(ant.type)

SimpleTarget(bid) ==
    LET ok == {i \in 1..Len(antennas) : SimpleAccepts(antennas[i], bid)}
    IN  IF ok = {} THEN 0 ELSE CHOOSE i \in ok : \A j \in ok : i <= j

(* One pass through 'for b in sorted_buildings'; a building no type holds  *)
(* gets no antenna.                                                        *)
SimpleVisit ==
    /\ alg = "solve_simple" /\ pc = "loop" /\ idx <= Len(aux)
    /\ \E bid \in {aux[idx]} :
       IF bid \notin uncovered
       THEN UNCHANGED <<antennas, uncovered>>
       ELSE \E i \in {SimpleTarget(bid)} :
            IF i # 0
            THEN /\ antennas' = [antennas EXCEPT ![i].buildings = Append(@, bid)]
                 /\ uncovered' = uncovered \ {bid}
            ELSE \E ant \in {SingleAntenna(FirstFitting(<<"Nano", "Spot", "MaxRange", "Density">>,
                                                        Pop(bid)), bid)} :
                 IF ant # <<>>
                 THEN /\ antennas' = Append(antennas, ant[1])
                      /\ uncovered' = uncovered \ {bid}
                 ELSE UNCHANGED <<antennas, uncovered>>
    /\ idx' = idx + 1
    /\ UNCHANGED <<alg, pc, buildings, aux>>

SimpleReturn ==
    /\ alg = "solve_simple" /\ pc = "loop" /\ idx > Len(aux)
    /\ pc' = "done"
    /\ UNCHANGED <<alg, buildings, uncovered, antennas, idx, aux>>

---------------------------------------------------------------------------
(* Range of the solutions of solve_advanced, solve_grid and solve_sweep *)

InitRange == InitData({"solve_advanced", "solve_grid", "solve_sweep"}, AnyProfiles)

NextRange ==
    \/ AdvancedPhase1
    \/ AdvancedIterate
    \/ AdvancedReturn
    \/ GridStart
    \/ GridPass
    \/ GridNextCell
    \/ GridReturn
    \/ SweepStart(Types)
    \/ SweepVisit
    \/ SweepReturn

SpecRange == InitRange /\ [][NextRange]_vars

(* C4: in every solution returned by solve_advanced, solve_grid or         *)
(* solve_sweep, each assigned building lies within the radius of its       *)
(* antenna's type from the antenna's position (squared distance at most    *)
(* the squared radius, a building exactly at the radius being in range).   *)
C4_RangeInvariant ==
    pc = "done" => \A k \in 1..Len(antennas) : RangeOk(antennas[k])

(* solve_grid returns a MaxRange antenna holding a building exactly 400 away. *)
C4_Witness ==
    /\ pc = "done" /\ alg = "solve_grid"
    /\ \E k \in 1..Len(antennas) :
         /\ antennas[k].type = "MaxRange"
         /\ \E j \in 1..Len(antennas[k].buildings) :
              dist_sq(antennas[k].x, antennas[k].y,
                      BMap(antennas[k].buildings[j]).x,
                      BMap(antennas[k].buildings[j]).y) = Range("MaxRange") * Range("MaxRange")

---------------------------------------------------------------------------
(* Demands that no type can hold: solve_advanced and solve_simple *)

InitInfeasible == InitData({"solve_advanced", "solve_simple"}, AnyProfiles)

NextInfeasible ==
    \/ AdvancedPhase1
    \/ AdvancedIterate
    \/ AdvancedReturn
    \/ SimpleStart
    \/ SimpleVisit
    \/ SimpleReturn

SpecInfeasible == InitInfeasible /\ [][NextInfeasible]_vars

Unservable(bid) == \A t \in Types : Pop(bid) > Capacity(t)

(* The antennas of sol that hold building bid. *)
Holders(sol, bid) == {k \in 1..Len(sol) : bid \in Elems(sol[k].buildings)}

(* C5: when a building's demand exceeds the capacity of every type, the    *)
(* constructor returns no solution in which that building is missing and   *)
(* none in which it sits on an antenna of smaller capacity than its demand. *)
C5_InfeasibilitySignalled ==
    pc = "done" =>
        \A bid \in AllIds :
            Unservable(bid) =>
                /\ Holders(antennas, bid) # {}
                /\ \A k \in Holders(antennas, bid) : Capacity(antennas[k].type) >= Pop(bid)

---------------------------------------------------------------------------
(* Covering loops of solve_grid and solve_density_first *)

InitCovering == InitData({"solve_grid", "solve_density_first"}, AnyProfiles)

NextCovering ==
    \/ GridStart
    \/ GridPass
    \/ GridNextCell
    \/ GridReturn
    \/ DFStart
    \/ DFPass
    \/ DFNextCell
    \/ DFReturn

SpecCovering == InitCovering /\ [][NextCovering]_vars

(* C6: each pass through the covering loop of solve_grid and of            *)
(* solve_density_first removes at least one building from the uncovered    *)
(* set, so that the loop ends after finitely many passes.                  *)
C6_PassRemovesBuilding ==
    [][(GridPass \/ DFPass) => Cardinality(uncovered') < Cardinality(uncovered)]_vars

---------------------------------------------------------------------------
(* Solutions handed to the improvement passes *)

Feasible(a) == a.buildings # <<>> /\ CapacityOk(a) /\ RangeOk(a)

(* The antennas that serve exactly the buildings of B from the position of *)
(* one of them, with any type that holds them.                             *)
AntennasFor(B) ==
    {a \in {Antenna(t, BMap(site).x, BMap(site).y, SetToSeq(B)) : site \in B, t \in Types} :
        Feasible(a)}

RECURSIVE FeasibleSolutions(_)
(* The feasible solutions over the buildings of S, the antennas listed by  *)
(* their smallest building id.                                             *)
FeasibleSolutions(S) ==
    IF S = {} THEN {<<>>}
    ELSE UNION {{<<a>> \o rest : a \in AntennasFor(B \cup {MinId(S)}),
                                 rest \in FeasibleSolutions(S \ (B \cup {MinId(S)}))}
                : B \in SUBSET (S \ {MinId(S)})}

(* Sites and demands of the datasets whose solutions are improved. *)
SolvedPoints == {<<0, 0>>, <<0, 120>>}

SolvedProfiles == {<<100, 60, 20>>, <<1000, 3000, 500>>}

InitSolved(algs) ==
    /\ alg \in algs
    /\ pc = "start"
    /\ buildings \in Datasets(SolvedPoints, SolvedProfiles)
    /\ uncovered = {}
    /\ antennas \in FeasibleSolutions(AllIds)
    /\ idx = 1
    /\ aux = <<>>

(* calculate_cost *)
RECURSIVE calculate_cost(_)
calculate_cost(sol) ==
    IF sol = <<>> THEN 0 ELSE Cost(Head(sol).type) + calculate_cost(Tail(sol))

Indices(sol) == AsList([i \in 1..Len(sol) |-> i])

AntCell(a, cs) == <<a.x \div cs, a.y \div cs>>

(* for dx in range(-k, k + 1): for dy in range(-k, k + 1): for i in        *)
(* grid[(cx + dx, cy + dy)] -- the antenna indices met, in that order.     *)
AntScan(sol, c, k, cs) ==
    SortLT(SelectSeq(Indices(sol), LAMBDA i :
               /\ AntCell(sol[i], cs)[1] \in (c[1] - k)..(c[1] + k)
               /\ AntCell(sol[i], cs)[2] \in (c[2] - k)..(c[2] + k)),
           LAMBDA p, q : PairLT(AntCell(sol[p], cs), AntCell(sol[q], cs)))

(* Mutant: the range test is left out. *)
HoldsDemand(t, x, y, bids) == ~(SumPop(bids) > Capacity(t))

(* Type t holds the buildings bids from (x, y). *)
Holds(t, x, y, bids) ==
    /\ ~(SumPop(bids) > Capacity(t))
    /\ \A k \in 1..Len(bids) : InRange(x, y, t, bids[k])

(* The first type of order that holds bids from (x, y), or none. *)
FirstValidType(order, x, y, bids) ==
    FirstOf(SelectSeq(order, LAMBDA t : Holds(t, x, y, bids)))

RemoveAt(seq, j) == SubSeq(seq, 1, j - 1) \o SubSeq(seq, j + 1, Len(seq))

---------------------------------------------------------------------------
(* epitech_aggressive.try_absorb_into_multi *)

AbsorbStart ==
    /\ alg = "try_absorb_into_multi" /\ pc = "start"
    /\ aux' = [single_indices |-> SelectSeq(Indices(antennas),
                                            LAMBDA i : Len(antennas[i].buildings) = 1),
               absorptions |-> <<>>, absorbed |-> {}, used_targets |-> {}]
    /\ pc' = "plan"
    /\ UNCHANGED <<alg, buildings, uncovered, antennas, idx>>

(* The absorption of single si into antenna mi: the first type that holds  *)
(* mi's buildings and si's building from mi's position, with its savings.  *)
AbsorbInto(sol, si, mi) ==
    LET ts == FirstValidType(NanoFirst, sol[mi].x, sol[mi].y,
                             Append(sol[mi].buildings, sol[si].buildings[1]))
    IN  IF ts = <<>> THEN <<>>
        ELSE <<[si |-> si, ti |-> mi, type |-> ts[1],
                savings |-> Cost(sol[si].type) + Cost(sol[mi].type) - Cost(ts[1])]>>

RECURSIVE BestTarget(_, _, _, _, _)
(* if savings > best_savings: best_target = (mi, atype) *)
BestTarget(sol, si, targets, skip, best) ==
    IF targets = <<>> THEN best
    ELSE LET mi == Head(targets)
             c  == IF mi = si \/ mi \in skip THEN <<>> ELSE AbsorbInto(sol, si, mi)
         IN  IF c # <<>> /\ c[1].savings > (IF best = <<>> THEN 0 ELSE best[1].savings)
             THEN BestTarget(sol, si, Tail(targets), skip, c)
             ELSE BestTarget(sol, si, Tail(targets), skip, best)

(* One pass through 'for si in single_indices'. *)
AbsorbPlan ==
    /\ alg = "try_absorb_into_multi" /\ pc = "plan" /\ idx <= Len(aux.single_indices)
    /\ \E si \in {aux.single_indices[idx]} :
       \E best \in {BestTarget(antennas, si,
                               AntScan(antennas, AntCell(antennas[si], 200), 4, 200),
                               aux.absorbed, <<>>)} :
          aux' = [aux EXCEPT !.absorptions = @ \o best]
    /\ idx' = idx + 1
    /\ UNCHANGED <<alg, pc, buildings, uncovered, antennas>>

(* absorptions.sort(key=lambda x: -x[3]) *)
AbsorbSort ==
    /\ alg = "try_absorb_into_multi" /\ pc = "plan" /\ idx > Len(aux.single_indices)
    /\ aux' = [aux EXCEPT !.absorptions = SortBy(@, LAMBDA e : 0 - e.savings)]
    /\ pc' = "apply"
    /\ idx' = 1
    /\ UNCHANGED <<alg, buildings, uncovered, antennas>>

(* One pass through 'for si, ti, new_type, savings in absorptions'. *)
AbsorbApply ==
    /\ alg = "try_absorb_into_multi" /\ pc = "apply" /\ idx <= Len(aux.absorptions)
    /\ \E e \in {aux.absorptions[idx]} :
          IF e.si \in aux.absorbed \/ e.ti \in aux.used_targets
          THEN UNCHANGED <<antennas, aux>>
          ELSE /\ antennas' = [antennas EXCEPT
                                 ![e.ti].buildings = Append(@, antennas[e.si].buildings[1]),
                                 ![e.ti].type = e.type]
               /\ aux' = [aux EXCEPT !.absorbed = @ \cup {e.si},
                                     !.used_targets = @ \cup {e.ti}]
    /\ idx' = idx + 1
    /\ UNCHANGED <<alg, pc, buildings, uncovered>>

(* result = [a for i, a in enumerate(antennas) if i not in absorbed] *)
AbsorbReturn ==
    /\ alg = "try_absorb_into_multi" /\ pc = "apply" /\ idx > Len(aux.absorptions)
    /\ \E keep \in {SelectSeq(Indices(antennas), LAMBDA i : i \notin aux.absorbed)} :
          antennas' = AsList([k \in 1..Len(keep) |-> antennas[keep[k]]])
    /\ pc' = "done"
    /\ UNCHANGED <<alg, buildings, uncovered, idx, aux>>

InitAbsorb == InitSolved({"try_absorb_into_multi"})

NextAbsorb ==
    \/ AbsorbStart
    \/ AbsorbPlan
    \/ AbsorbSort
    \/ AbsorbApply
    \/ AbsorbReturn

SpecAbsorb == InitAbsorb /\ [][NextAbsorb]_vars

(* C7: the solution returned by try_absorb_into_multi on a feasible        *)
(* solution still contains every building exactly once.                    *)
C7_AbsorbKeepsBuildings == pc = "done" => Partition(antennas)

---------------------------------------------------------------------------
(* advanced_solution.try_merge_antennas *)

NotDearer(new_cost, old_cost) == new_cost <= old_cost

(* if new_cost < old_cost *)
Cheaper(new_cost, old_cost) == new_cost < old_cost

(* Mutant: only the position of a1 is tried. *)
FirstPositionTwice(a1, a2) == <<<<a1.x, a1.y>>, <<a1.x, a1.y>>>>

(* The positions tried for a merge of a1 and a2. *)
MergePositions(a1, a2) == <<<<a1.x, a1.y>>, <<a2.x, a2.y>>>>

(* for pos in [...]: for atype in ['Density', 'MaxRange', 'Spot', 'Nano']:  *)
(* the first position and type that hold all the buildings for less than   *)
(* the two antennas cost, as the merged antenna, or none.                   *)
TryMerge(a1, a2) ==
    LET all_bids == a1.buildings \o a2.buildings
        order    == <<"Density", "MaxRange", "Spot", "Nano">>
        pos      == MergePositions(a1, a2)
        tries    == AsList([k \in 1..(2 * Len(order)) |->
                        [p |-> pos[((k - 1) \div Len(order)) + 1],
                         t |-> order[((k - 1) % Len(order)) + 1]]])
        ok       == SelectSeq(tries, LAMBDA c :
                        /\ Holds(c.t, c.p[1], c.p[2], all_bids)
                        /\ Cheaper(Cost(c.t), Cost(a1.type) + Cost(a2.type)))
    IN  IF ok = <<>> THEN <<>>
        ELSE <<Antenna(ok[1].t, ok[1].p[1], ok[1].p[2], all_bids)>>

(* while improved: improved = False; i = 0 *)
TMBegin ==
    /\ alg = "try_merge_antennas" /\ pc = "start"
    /\ idx' = 1
    /\ aux' = [j |-> 2]
    /\ pc' = "scan"
    /\ UNCHANGED <<alg, buildings, uncovered, antennas>>

(* The pair (i, j) is examined: on a merge, antennas[i] = merged and       *)
(* antennas.pop(j), and the scan starts again; otherwise j += 1.           *)
TMExamine ==
    /\ alg = "try_merge_antennas" /\ pc = "scan"
    /\ idx <= Len(antennas) /\ aux.j <= Len(antennas)
    /\ \E m \in {TryMerge(antennas[idx], antennas[aux.j])} :
          IF m # <<>>
          THEN /\ antennas' = RemoveAt([antennas EXCEPT ![idx] = m[1]], aux.j)
               /\ pc' = "start"
               /\ UNCHANGED aux
          ELSE /\ aux' = [aux EXCEPT !.j = @ + 1]
               /\ UNCHANGED <<antennas, pc>>
    /\ UNCHANGED <<alg, buildings, uncovered, idx>>

(* i += 1; j = i + 1 *)
TMNextRow ==
    /\ alg = "try_merge_antennas" /\ pc = "scan"
    /\ idx <= Len(antennas) /\ aux.j > Len(antennas)
    /\ idx' = idx + 1
    /\ aux' = [aux EXCEPT !.j = idx + 2]
    /\ UNCHANGED <<alg, pc, buildings, uncovered, antennas>>

TMReturn ==
    /\ alg = "try_merge_antennas" /\ pc = "scan" /\ idx > Len(antennas)
    /\ pc' = "done"
    /\ UNCHANGED <<alg, buildings, uncovered, antennas, idx, aux>>

---------------------------------------------------------------------------
(* fast_merge.fast_merge *)

FMStart ==
    /\ alg = "fast_merge" /\ pc = "start"
    /\ aux' = [new_antennas |-> <<>>, merged |-> {}]
    /\ pc' = "scan"
    /\ UNCHANGED <<alg, buildings, uncovered, antennas, idx>>

(* The partners tried for antenna i, in scan order. *)
FMPartners(i, merged) ==
    SelectSeq(AntScan(antennas, AntCell(antennas[i], 200), 2, 200), LAMBDA j :
        /\ ~(j <= i \/ j \in merged)
        /\ ~(dist_sq(antennas[i].x, antennas[i].y, antennas[j].x, antennas[j].y) > 800 * 800))

(* The merge of a1 and partner j at position p: the first type that holds  *)
(* all the buildings, with its savings.                                    *)
FMOption(a1, j, p) ==
    LET all_bids == a1.buildings \o antennas[j].buildings
        ts       == FirstValidType(NanoFirst, p[1], p[2], all_bids)
    IN  IF ts = <<>> THEN <<>>
        ELSE <<[j |-> j, ant |-> Antenna(ts[1], p[1], p[2], all_bids),
                savings |-> Cost(a1.type) + Cost(antennas[j].type) - Cost(ts[1])]>>

(* The options of antenna i, partner by partner, each at a1's position and *)
(* then at the partner's.                                                  *)
FMOptions(i, merged) ==
    LET js == FMPartners(i, merged)
    IN  Flatten(AsList([k \in 1..(2 * Len(js)) |->
            FMOption(antennas[i], js[((k - 1) \div 2) + 1],
                     MergePositions(antennas[i], antennas[js[((k - 1) \div 2) + 1]])[((k - 1) % 2) + 1])]))

RECURSIVE FMBest(_, _)
(* if savings > best_savings: best_merge = {...} *)
FMBest(opts, best) ==
    IF opts = <<>> THEN best
    ELSE IF Cheaper(IF best = <<>> THEN 0 ELSE best[1].savings, Head(opts).savings)
         THEN FMBest(Tail(opts), <<Head(opts)>>)
         ELSE FMBest(Tail(opts), best)

(* One pass through 'for i, ant in enumerate(antennas)': an antenna merged *)
(* before is passed over; otherwise the best merge, or the antenna itself, *)
(* joins new_antennas.                                                     *)
FMVisit ==
    /\ alg = "fast_merge" /\ pc = "scan" /\ idx <= Len(antennas)
    /\ IF idx \in aux.merged
       THEN UNCHANGED aux
       ELSE \E best \in {FMBest(FMOptions(idx, aux.merged), <<>>)} :
               IF best # <<>>
               THEN aux' = [new_antennas |-> Append(aux.new_antennas, best[1].ant),
                            merged |-> aux.merged \cup {idx, best[1].j}]
               ELSE aux' = [aux EXCEPT !.new_antennas = Append(@, antennas[idx])]
    /\ idx' = idx + 1
    /\ UNCHANGED <<alg, pc, buildings, uncovered, antennas>>

(* return new_antennas, merges *)
FMReturn ==
    /\ alg = "fast_merge" /\ pc = "scan" /\ idx > Len(antennas)
    /\ antennas' = aux.new_antennas
    /\ pc' = "done"
    /\ UNCHANGED <<alg, buildings, uncovered, idx, aux>>

---------------------------------------------------------------------------
(* Merges accepted by try_merge_antennas and fast_merge *)

InitMerge == InitSolved({"try_merge_antennas", "fast_merge"})

NextMerge ==
    \/ TMBegin
    \/ TMExamine
    \/ TMNextRow
    \/ TMReturn
    \/ FMStart
    \/ FMVisit
    \/ FMReturn

SpecMerge == InitMerge /\ [][NextMerge]_vars

(* Antenna m is a sound merge of a1 and a2: their buildings, at one of     *)
(* their positions, with a type that holds them, for less than they cost.  *)
SoundMerge(m, a1, a2) ==
    /\ Elems(m.buildings) = Elems(a1.buildings) \cup Elems(a2.buildings)
    /\ Len(m.buildings) = Len(a1.buildings) + Len(a2.buildings)
    /\ <<m.x, m.y>> \in {<<a1.x, a1.y>>, <<a2.x, a2.y>>}
    /\ CapacityOk(m) /\ RangeOk(m)
    /\ Cost(m.type) < Cost(a1.type) + Cost(a2.type)

(* A step of try_merge_antennas that merges. *)
TMMerges == alg = "try_merge_antennas" /\ antennas' # antennas

(* A step of fast_merge that merges. *)
FMMerges == alg = "fast_merge" /\ pc = "scan" /\ aux'.merged # aux.merged

(* A step of fast_merge on an antenna that is neither merged nor marked. *)
FMKeeps ==
    /\ alg = "fast_merge" /\ pc = "scan" /\ idx' # idx
    /\ aux'.merged = aux.merged /\ idx \notin aux.merged

(* The step replaces antennas i and j of the list by their merge, the      *)
(* others staying as and where they were.                                  *)
TMSound ==
    \E i, j \in 1..Len(antennas) :
        /\ i < j
        /\ Len(antennas') = Len(antennas) - 1
        /\ SoundMerge(antennas'[i], antennas[i], antennas[j])
        /\ \A k \in 1..Len(antennas') :
               k # i => antennas'[k] = antennas[IF k < j THEN k ELSE k + 1]

(* The step adds to the result the merge of antenna idx and one later      *)
(* antenna not merged before, and marks both merged.                       *)
FMSound ==
    \E j \in 1..Len(antennas) :
        /\ j > idx /\ j \notin aux.merged /\ idx \notin aux.merged
        /\ aux'.merged = aux.merged \cup {idx, j}
        /\ Len(aux'.new_antennas) = Len(aux.new_antennas) + 1
        /\ SubSeq(aux'.new_antennas, 1, Len(aux.new_antennas)) = aux.new_antennas
        /\ SoundMerge(aux'.new_antennas[Len(aux'.new_antennas)], antennas[idx], antennas[j])
        /\ antennas' = antennas

(* C8: every merge accepted by try_merge_antennas and by fast_merge        *)
(* replaces two antennas of a feasible solution by one antenna that holds  *)
(* exactly the buildings of both, at one of the two positions, with a type *)
(* whose capacity and radius hold for them and that costs strictly less    *)
(* than the two together; the other antennas are unchanged.                *)
C8_MergeSound ==
    [][/\ TMMerges => TMSound
       /\ FMMerges => FMSound
       /\ FMKeeps => aux'.new_antennas = Append(aux.new_antennas, antennas[idx])]_vars

(* fast_merge returns one merged antenna beside one it left alone. *)
C8_Witness ==
    /\ pc = "done" /\ alg = "fast_merge"
    /\ aux.merged # {}
    /\ Len(antennas) = 2
    /\ \E k \in 1..2 : Len(antennas[k].buildings) = 1

---------------------------------------------------------------------------
(* Neighbour moves of the annealing drivers *)

(* A move's result: a new solution, or None. *)
None == [ok |-> FALSE, sol |-> <<>>]

Some(sol) == [ok |-> TRUE, sol |-> sol]

(* get_cheapest_valid_type: the first type of TYPE_ORDER that holds the    *)
(* buildings from (x, y), or none.                                         *)
get_cheapest_valid_type(x, y, bids) ==
    IF bids = <<>> THEN <<>> ELSE FirstValidType(NanoFirst, x, y, bids)

(* Antenna a with buildings bids and the cheapest type that holds them;    *)
(* called only where such a type exists.                                   *)
Retyped(a, x, y, bids) == Antenna(get_cheapest_valid_type(x, y, bids)[1], x, y, bids)

(* Mutant: the moved building stays in the source antenna's list. *)
KeepBid(blds, bid) == blds

(* new_src_blds = [x for x in src['buildings'] if x != bid] *)
RemoveBid(blds, bid) == SelectSeq(blds, LAMBDA x : x # bid)

(* The targets that can take building bid of antenna src_idx. *)
MoveTargets(sol, src_idx, bid) ==
    {tgt_idx \in 1..Len(sol) :
        /\ tgt_idx # src_idx
        /\ ~(dist_sq(sol[tgt_idx].x, sol[tgt_idx].y, BMap(bid).x, BMap(bid).y) > 400 * 400)
        /\ get_cheapest_valid_type(sol[tgt_idx].x, sol[tgt_idx].y,
                                   Append(sol[tgt_idx].buildings, bid)) # <<>>
        /\ get_cheapest_valid_type(sol[src_idx].x, sol[src_idx].y,
                                   RemoveBid(sol[src_idx].buildings, bid)) # <<>>}

Moved(sol, src_idx, bid, tgt_idx) ==
    [sol EXCEPT
        ![src_idx] = Retyped(@, @.x, @.y, RemoveBid(@.buildings, bid)),
        ![tgt_idx] = Retyped(@, @.x, @.y, Append(@.buildings, bid))]

(* try_move_building / move_building: the source, the building and the     *)
(* order in which the targets are tried are drawn at random; the first     *)
(* target that can take the building is used.  (indices[:30] is every      *)
(* index of a list of at most 30 antennas.)                                *)
try_move_building(sol) ==
    LET multi == {i \in 1..Len(sol) : Len(sol[i].buildings) > 1}
    IN  IF Len(sol) < 2 \/ multi = {} THEN {None}
        ELSE UNION {UNION {
                 IF MoveTargets(sol, src_idx, bid) = {} THEN {None}
                 ELSE {Some(Moved(sol, src_idx, bid, tgt_idx)) :
                          tgt_idx \in MoveTargets(sol, src_idx, bid)}
                 : bid \in Elems(sol[src_idx].buildings)} : src_idx \in multi}

(* The merge of a1 and a2 at the first of the positions where some type    *)
(* holds all their buildings, or none.                                     *)
MergedAt(positions, a1, a2) ==
    LET ok == SelectSeq(positions, LAMBDA p :
                  get_cheapest_valid_type(p[1], p[2], a1.buildings \o a2.buildings) # <<>>)
    IN  IF ok = <<>> THEN <<>>
        ELSE <<Retyped(a1, ok[1][1], ok[1][2], a1.buildings \o a2.buildings)>>

(* The positions tried by a merge move: those of the two antennas, and    *)
(* in merge_antennas (mid) the point midway.                               *)
MovePositions(a1, a2, mid) ==
    IF mid THEN MergePositions(a1, a2) \o <<<<(a1.x + a2.x) \div 2, (a1.y + a2.y) \div 2>>>>
    ELSE MergePositions(a1, a2)

(* The pairs i < j, at most 800 apart, that the positions allow to merge. *)
MergePairs(sol, mid) ==
    {pr \in (1..Len(sol)) \X (1..Len(sol)) :
        /\ pr[1] < pr[2]
        /\ ~(dist_sq(sol[pr[1]].x, sol[pr[1]].y, sol[pr[2]].x, sol[pr[2]].y) > 800 * 800)
        /\ MergedAt(MovePositions(sol[pr[1]], sol[pr[2]], mid), sol[pr[1]], sol[pr[2]]) # <<>>}

(* suburbia_sa_v2.try_merge: the pairs are tried in a random order and the *)
(* first that merges is used; the merged antenna takes the place of i.     *)
try_merge(sol) ==
    IF Len(sol) < 2 \/ MergePairs(sol, FALSE) = {} THEN {None}
    ELSE {Some(RemoveAt([sol EXCEPT ![pr[1]] =
                            MergedAt(MovePositions(sol[pr[1]], sol[pr[2]], FALSE),
                                     sol[pr[1]], sol[pr[2]])[1]], pr[2])) :
             pr \in MergePairs(sol, FALSE)}

(* The target positions of relocate: those of the antenna's buildings. *)
Relocated(sol, i, bid) ==
    IF get_cheapest_valid_type(BMap(bid).x, BMap(bid).y, sol[i].buildings) = <<>> THEN None
    ELSE Some([sol EXCEPT ![i] = Retyped(@, BMap(bid).x, BMap(bid).y, @.buildings)])

(* try_relocate / relocate_antenna *)
try_relocate(sol) ==
    IF sol = <<>> THEN {None}
    ELSE UNION {IF sol[i].buildings = <<>> THEN {None}
                ELSE {Relocated(sol, i, bid) : bid \in Elems(sol[i].buildings)}
                : i \in 1..Len(sol)}

(* The results a neighbour function can return: any solution one of its    *)
(* moves returns, and None when every move can return None (the move drawn *)
(* first, then the fallback through all of them).                          *)
NeighborResults(outs) ==
    {r \in UNION Elems(outs) : r.ok}
        \cup (IF \A k \in 1..Len(outs) : None \in outs[k] THEN {None} ELSE {})

(* suburbia_sa_v2.neighbor *)
neighbor(sol) == NeighborResults(<<try_move_building(sol), try_merge(sol), try_relocate(sol)>>)

Without(sol, drop) ==
    LET keep == SelectSeq(Indices(sol), LAMBDA k : k \notin drop)
    IN  AsList([k \in 1..Len(keep) |-> sol[keep[k]]])

(* suburbia_simulated_annealing.merge_antennas: the merged antenna goes to *)
(* the end of the list.                                                    *)
merge_antennas(sol) ==
    IF Len(sol) < 2 \/ MergePairs(sol, TRUE) = {} THEN {None}
    ELSE {Some(Append(Without(sol, {pr[1], pr[2]}),
                      MergedAt(MovePositions(sol[pr[1]], sol[pr[2]], TRUE),
                               sol[pr[1]], sol[pr[2]])[1])) :
             pr \in MergePairs(sol, TRUE)}

(* random.shuffle(bids): every order of the list. *)
Shuffles(bids) ==
    {AsList([k \in 1..Len(bids) |-> bids[f[k]]]) :
        f \in {g \in [1..Len(bids) -> 1..Len(bids)] :
                  \A a, b \in 1..Len(bids) : a # b => g[a] # g[b]}}

RECURSIVE SumX(_)
SumX(bids) == IF bids = <<>> THEN 0 ELSE BMap(Head(bids)).x + SumX(Tail(bids))

RECURSIVE SumY(_)
SumY(bids) == IF bids = <<>> THEN 0 ELSE BMap(Head(bids)).y + SumY(Tail(bids))

(* The antenna of the buildings bids at their centroid, with the cheapest  *)
(* type that holds them, or none.                                          *)
AtCentroid(bids) ==
    LET x == SumX(bids) \div Len(bids)
        y == SumY(bids) \div Len(bids)
    IN  IF get_cheapest_valid_type(x, y, bids) = <<>> THEN <<>>
        ELSE <<Retyped(<<>>, x, y, bids)>>

SplitOf(sol, i, bids) ==
    LET mid == IF Len(bids) \div 2 = 0 THEN 1 ELSE Len(bids) \div 2
        one == AtCentroid(SubSeq(bids, 1, mid))
        two == AtCentroid(SubSeq(bids, mid + 1, Len(bids)))
    IN  IF one = <<>> \/ two = <<>> THEN None
        ELSE Some(Without(sol, {i}) \o one \o two)

(* suburbia_simulated_annealing.split_antenna *)
split_antenna(sol) ==
    LET multi == {i \in 1..Len(sol) : Len(sol[i].buildings) >= 2}
    IN  IF multi = {} THEN {None}
        ELSE UNION {{SplitOf(sol, i, bids) : bids \in Shuffles(sol[i].buildings)} : i \in multi}

(* suburbia_simulated_annealing.random_neighbor *)
random_neighbor(sol) ==
    NeighborResults(<<try_move_building(sol), merge_antennas(sol),
                      split_antenna(sol), try_relocate(sol)>>)

---------------------------------------------------------------------------
(* The annealing drivers: suburbia_simulated_annealing.simulated_annealing *)
(* and suburbia_sa_v2.simulated_annealing                                  *)

(* validate_solution_fast: no empty antenna, capacity, range, and the set  *)
(* of buildings met is the set of all buildings.                           *)
validate_solution_fast(sol) ==
    /\ \A k \in 1..Len(sol) :
          /\ sol[k].buildings # <<>>
          /\ Elems(sol[k].buildings) \subseteq AllIds
          /\ ~(SumPop(sol[k].buildings) > Capacity(sol[k].type))
          /\ \A n \in 1..Len(sol[k].buildings) :
                ~(dist_sq(sol[k].x, sol[k].y, BMap(sol[k].buildings[n]).x,
                          BMap(sol[k].buildings[n]).y) > Range(sol[k].type) * Range(sol[k].type))
    /\ UNION {Elems(sol[k].buildings) : k \in 1..Len(sol)} = AllIds

FeasibleSolution(sol) == Partition(sol) /\ \A k \in 1..Len(sol) : Feasible(sol[k])

(* The solutions of FeasibleSolutions(S) whose antennas have the cheapest  *)
(* type that holds their buildings, as optimize_types leaves them.         *)
TypedSolutions(S) ==
    {sol \in FeasibleSolutions(S) :
        \A k \in 1..Len(sol) :
            sol[k].type = get_cheapest_valid_type(sol[k].x, sol[k].y, sol[k].buildings)[1]}

(* Sites of the datasets that are annealed: three in a row, the outer two *)
(* out of each other's reach.                                              *)
AnnealPoints == {<<0, 0>>, <<400, 0>>, <<800, 0>>}

(* The solutions handed to the drivers: feasible ones, and ones that leave *)
(* the last building out.                                                  *)
InitAnneal ==
    /\ alg \in {"suburbia_simulated_annealing", "suburbia_sa_v2"}
    /\ pc = "start"
    /\ buildings \in Datasets(AnnealPoints, SolvedProfiles)
    /\ uncovered = {}
    /\ antennas \in TypedSolutions(AllIds) \cup TypedSolutions(AllIds \ {Len(buildings)})
    /\ idx = 1
    /\ aux = <<>>

(* Mutant: a gain of one Nano's cost is not retained. *)
ImprovesByFar(cost, best_cost) == cost + Cost("Nano") < best_cost

(* if current_cost < best_cost *)
Improves(cost, best_cost) == cost < best_cost

(* The temperature is a quotient n / d.  The initial temperatures, the     *)
(* cooling rate and the floor are arguments of the drivers: with these     *)
(* the floor is reached after one iteration, or after three.               *)
InitialTemps == {2, 8}

CoolingRate == [n |-> 1, d |-> 2]

MinTemp == 1

(* Mutant: the temperature is left as it is. *)
Kept(temp) == temp

(* temp *= cooling_rate *)
Cooled(temp) == [n |-> temp.n * CoolingRate.n, d |-> temp.d * CoolingRate.d]

(* temp > floor *)
Above(temp, floor) == temp.n > floor * temp.d

(* current = antennas; best = current; temp = initial_temp; iteration = 0. *)
(* lowest, accepted, started_feasible and last record the run: the lowest  *)
(* cost among the initial and the accepted solutions, the number of        *)
(* candidates accepted, whether the initial solution was feasible, and how *)
(* the last iteration ended.                                               *)
SAStart ==
    /\ pc = "start"
    /\ alg \in {"suburbia_simulated_annealing", "suburbia_sa_v2", "suburbia_sa_fast"}
    /\ \E t \in InitialTemps :
          aux' = [best |-> antennas,
                  current_cost |-> calculate_cost(antennas),
                  best_cost |-> calculate_cost(antennas),
                  iteration |-> 0, max_iterations |-> MaxIterations,
                  initial_temp |-> t, temp |-> [n |-> t, d |-> 1],
                  lowest |-> calculate_cost(antennas), accepted |-> 0,
                  started_feasible |-> FeasibleSolution(antennas),
                  last |-> "start", returned |-> <<>>]
    /\ pc' = "anneal"
    /\ UNCHANGED <<alg, buildings, uncovered, antennas, idx>>

(* while temp > min_temp and iteration < max_iterations *)
Annealing == Above(aux.temp, MinTemp) /\ aux.iteration < aux.max_iterations

(* iteration += 1; temp *= cooling_rate; continue *)
NoOp(why) ==
    /\ aux' = [aux EXCEPT !.iteration = @ + 1, !.temp = Cooled(@), !.last = why]
    /\ UNCHANGED antennas

(* current = new; when keep_best, best is replaced if the cost is lower. *)
Accept(sol, keep_best) ==
    /\ antennas' = sol
    /\ aux' = [aux EXCEPT
                 !.current_cost = calculate_cost(sol),
                 !.best = IF keep_best /\ Improves(calculate_cost(sol), aux.best_cost)
                          THEN sol ELSE @,
                 !.best_cost = IF keep_best /\ Improves(calculate_cost(sol), aux.best_cost)
                               THEN calculate_cost(sol) ELSE @,
                 !.lowest = IF calculate_cost(sol) < @ THEN calculate_cost(sol) ELSE @,
                 !.accepted = @ + 1,
                 !.iteration = @ + 1, !.temp = Cooled(@), !.last = "accepted"]

(* random.random() < math.exp(-delta / temp), for delta >= 0: certain when *)
(* delta = 0, and either way when delta > 0.                               *)
Chance(delta) == IF delta = 0 THEN {TRUE} ELSE BOOLEAN

(* One iteration of suburbia_sa_v2.simulated_annealing. *)
SA2Iterate ==
    /\ alg = "suburbia_sa_v2" /\ pc = "anneal" /\ Annealing
    /\ \E new_solution \in neighbor(antennas) :
          IF ~new_solution.ok THEN NoOp("none")
          ELSE IF ~validate_solution_fast(new_solution.sol) THEN NoOp("invalid")
          ELSE IF calculate_cost(new_solution.sol) - aux.current_cost < 0
               THEN Accept(new_solution.sol, TRUE)
               ELSE \E lucky \in Chance(calculate_cost(new_solution.sol) - aux.current_cost) :
                       IF lucky THEN Accept(new_solution.sol, TRUE) ELSE NoOp("rejected")
    /\ UNCHANGED <<alg, pc, buildings, uncovered, idx>>

(* One iteration of suburbia_simulated_annealing.simulated_annealing. *)
SA1Iterate ==
    /\ alg = "suburbia_simulated_annealing" /\ pc = "anneal" /\ Annealing
    /\ \E nb \in random_neighbor(antennas) :
          IF ~nb.ok THEN NoOp("none")
          ELSE IF calculate_cost(nb.sol) - aux.current_cost < 0
               THEN Accept(nb.sol, TRUE)
               ELSE \E lucky \in Chance(calculate_cost(nb.sol) - aux.current_cost) :
                       IF lucky THEN Accept(nb.sol, FALSE) ELSE NoOp("rejected")
    /\ UNCHANGED <<alg, pc, buildings, uncovered, idx>>

(* return best, best_cost *)
SAReturn ==
    /\ alg \in {"suburbia_simulated_annealing", "suburbia_sa_v2"}
    /\ pc = "anneal" /\ ~Annealing
    /\ aux' = [aux EXCEPT !.returned = <<aux.best, aux.best_cost>>]
    /\ pc' = "done"
    /\ UNCHANGED <<alg, buildings, uncovered, antennas, idx>>

NextAnneal ==
    \/ SAStart
    \/ SA1Iterate
    \/ SA2Iterate
    \/ SAReturn

SpecAnneal == InitAnneal /\ [][NextAnneal]_vars

(* C9: at every iteration best_cost <= current_cost and best_cost does not *)
(* increase; on termination the driver returns the retained best solution, *)
(* whose cost is the lowest among the initial solution and the candidates  *)
(* accepted during the run.                                                *)
C9_BestRetained ==
    [][pc' # "start" =>
          /\ aux'.best_cost <= aux'.current_cost
          /\ pc # "start" => aux'.best_cost <= aux.best_cost
          /\ pc' = "done" =>
                /\ aux'.returned = <<aux'.best, aux'.best_cost>>
                /\ aux'.best_cost = aux'.lowest
                /\ calculate_cost(aux'.best) = aux'.best_cost]_vars

(* A run that improved on the initial solution, then accepted a dearer     *)
(* candidate, and returned the improvement.                                *)
C9_Witness ==
    /\ pc = "done"
    /\ aux.accepted = 2 /\ aux.iteration = 2
    /\ aux.best_cost < aux.current_cost
    /\ aux.best # antennas
    /\ aux.returned = <<aux.best, aux.best_cost>>

(* C10: in suburbia_sa_v2 an iteration whose candidate is absent or fails  *)
(* validation changes neither the working nor the best solution; started   *)
(* from a feasible solution, the working and the best solution satisfy     *)
(* partition, range and capacity, with no empty antenna, at every          *)
(* iteration and at termination.                                           *)
C10_ValidatedAnnealing ==
    [][(alg = "suburbia_sa_v2" /\ pc' # "start") =>
          /\ (pc = "anneal" /\ pc' = "anneal" /\ aux'.last \in {"none", "invalid"}) =>
                (antennas' = antennas /\ aux'.best = aux.best)
          /\ aux'.started_feasible =>
                (FeasibleSolution(antennas') /\ FeasibleSolution(aux'.best))]_vars

(* A run of suburbia_sa_v2 from a feasible solution that accepted a        *)
(* candidate and then met an iteration without one.                        *)
C10_Witness ==
    /\ alg = "suburbia_sa_v2" /\ pc = "done"
    /\ aux.started_feasible
    /\ aux.accepted = 1 /\ aux.iteration = 2 /\ aux.last = "none"
    /\ Len(antennas) = 1 /\ Len(antennas[1].buildings) = 3

(* The antenna stands at the coordinates of a building of the dataset. *)
OnBuildingSite(a) == \E bid \in AllIds : BMap(bid).x = a.x /\ BMap(bid).y = a.y

(* C12: every antenna of every solution produced by an operator (merge,    *)
(* split, relocate) stands at the coordinates of some building of the      *)
(* dataset.                                                                *)
C12_OnBuildingSites ==
    pc # "start" => /\ \A k \in 1..Len(antennas) : OnBuildingSite(antennas[k])
                    /\ \A k \in 1..Len(aux.best) : OnBuildingSite(aux.best[k])

---------------------------------------------------------------------------
(* optimize_types (best_solution, advanced_solution, epitech_aggressive)   *)

(* for atype in ['Nano', 'Spot', 'MaxRange', 'Density'] *)
DowngradeOrder == <<"Nano", "Spot", "MaxRange", "Density">>

(* Mutant: any type of another cost replaces the best so far. *)
OtherCost(cost, best_cost) == cost # best_cost

(* specs['cost_on'] < best_cost *)
LowerCost(cost, best_cost) == cost < best_cost

RECURSIVE BestType(_, _, _)
(* The scan of the types for antenna a: a type that holds a's buildings    *)
(* from a's position and costs less than the best so far replaces it.      *)
BestType(order, a, best_type) ==
    IF order = <<>> THEN best_type
    ELSE IF /\ Holds(Head(order), a.x, a.y, a.buildings)
            /\ LowerCost(Cost(Head(order)), Cost(best_type))
         THEN BestType(Tail(order), a, Head(order))
         ELSE BestType(Tail(order), a, best_type)

(* One antenna of the result: type best_type, the rest as it was. *)
Downgraded(a) == Antenna(BestType(DowngradeOrder, a, a.type), a.x, a.y, a.buildings)

optimize_types(sol) == AsList([k \in 1..Len(sol) |-> Downgraded(sol[k])])

(* The antennas that list the buildings of B at the site of one of them,   *)
(* with any type, whether it holds them or not.                            *)
AnyAntennasFor(B) ==
    {Antenna(t, BMap(site).x, BMap(site).y, SetToSeq(B)) : site \in B, t \in Types}

RECURSIVE AnySolutions(_)
(* The solutions over the buildings of S, feasible or not. *)
AnySolutions(S) ==
    IF S = {} THEN {<<>>}
    ELSE UNION {{<<a>> \o rest : a \in AnyAntennasFor(B \cup {MinId(S)}),
                                 rest \in AnySolutions(S \ (B \cup {MinId(S)}))}
                : B \in SUBSET (S \ {MinId(S)})}

InitDowngrade ==
    /\ alg = "optimize_types"
    /\ pc = "start"
    /\ buildings \in Datasets(SolvedPoints, SolvedProfiles)
    /\ uncovered = {}
    /\ antennas \in AnySolutions(AllIds)
    /\ idx = 1
    /\ aux = <<>>

(* optimize_types applied to a solution. *)
OTApply ==
    /\ alg = "optimize_types" /\ pc = "start"
    /\ antennas' = optimize_types(antennas)
    /\ aux' = [input |-> antennas]
    /\ pc' = "once"
    /\ UNCHANGED <<alg, buildings, uncovered, idx>>

(* optimize_types applied to its own result. *)
OTApplyAgain ==
    /\ alg = "optimize_types" /\ pc = "once"
    /\ antennas' = optimize_types(antennas)
    /\ aux' = [aux EXCEPT !.input = antennas]
    /\ pc' = "twice"
    /\ UNCHANGED <<alg, buildings, uncovered, idx>>

NextDowngrade ==
    \/ OTApply
    \/ OTApplyAgain

SpecDowngrade == InitDowngrade /\ [][NextDowngrade]_vars

(* C13: optimize_types returns as many antennas in the same order, each    *)
(* with the position and the building list it had, at a total cost that is *)
(* at most the input's.                                                    *)
C13_DowngradeFrame ==
    pc \in {"once", "twice"} =>
        /\ Len(antennas) = Len(aux.input)
        /\ \A k \in 1..Len(antennas) :
              /\ antennas[k].x = aux.input[k].x /\ antennas[k].y = aux.input[k].y
              /\ antennas[k].buildings = aux.input[k].buildings
        /\ calculate_cost(antennas) <= calculate_cost(aux.input)

(* A solution of two antennas of which optimize_types made one cheaper and *)
(* left the other as it was.                                               *)
C13_Witness ==
    /\ pc = "once" /\ Len(antennas) = 2
    /\ antennas[1] = aux.input[1]
    /\ Cost(antennas[2].type) < Cost(aux.input[2].type)

(* Type t satisfies capacity and range for antenna a's buildings from a's  *)
(* position.                                                               *)
Satisfies(t, a) ==
    /\ CapacityOk(Antenna(t, a.x, a.y, a.buildings))
    /\ RangeOk(Antenna(t, a.x, a.y, a.buildings))

(* C14: after optimize_types every antenna whose input type satisfied      *)
(* range and capacity carries the cheapest of the four types that satisfy  *)
(* them, so the result still satisfies them; a second application changes  *)
(* nothing.                                                                *)
C14_CheapestType ==
    /\ pc = "once" =>
          \A k \in 1..Len(antennas) :
              Satisfies(aux.input[k].type, aux.input[k]) =>
                  /\ Satisfies(antennas[k].type, antennas[k])
                  /\ \A t \in Types :
                        Satisfies(t, antennas[k]) => Cost(antennas[k].type) <= Cost(t)
    /\ pc = "twice" => antennas = aux.input

(* A MaxRange antenna that held its two buildings became a Density one,    *)
(* the cheapest type that holds them.                                      *)
C14_Witness ==
    /\ pc = "once" /\ Len(antennas) = 1
    /\ Len(antennas[1].buildings) = 2
    /\ aux.input[1].type = "MaxRange" /\ Satisfies("MaxRange", aux.input[1])
    /\ antennas[1].type = "Density"

---------------------------------------------------------------------------
(* epitech_aggressive.try_wide_merge *)

(* indices = sorted(range(len(antennas)), key=lambda i: len(...)) *)
WMOrder(sol) == SortBy(Indices(sol), LAMBDA i : Len(sol[i].buildings))

(* positions: every building of both antennas, then the two antennas. *)
WMPositions(a1, a2) ==
    AsList([k \in 1..Len(a1.buildings \o a2.buildings) |->
               <<BMap((a1.buildings \o a2.buildings)[k]).x,
                 BMap((a1.buildings \o a2.buildings)[k]).y>>])
    \o <<<<a1.x, a1.y>>, <<a2.x, a2.y>>>>

(* The merge of sol[i] and sol[j] at p: the first type that holds all the  *)
(* buildings, with its savings.                                            *)
WMOption(sol, i, j, p) ==
    LET all_bids == sol[i].buildings \o sol[j].buildings
        ts       == FirstValidType(NanoFirst, p[1], p[2], all_bids)
    IN  IF ts = <<>> THEN <<>>
        ELSE <<[j |-> j, ant |-> Antenna(ts[1], p[1], p[2], all_bids),
                savings |-> Cost(sol[i].type) + Cost(sol[j].type) - Cost(ts[1])]>>

(* The options of antenna i with partner j, position by position. *)
WMPairOptions(sol, i, j) ==
    LET ps == WMPositions(sol[i], sol[j])
    IN  Flatten(AsList([k \in 1..Len(ps) |-> WMOption(sol, i, j, ps[k])]))

(* The options of antenna i, partner by partner in scan order. *)
WMOptions(sol, i, merged) ==
    LET js == SelectSeq(AntScan(sol, AntCell(sol[i], 200), 5, 200),
                        LAMBDA j : ~(j <= i \/ j \in merged))
    IN  Flatten(AsList([k \in 1..Len(js) |-> WMPairOptions(sol, i, js[k])]))

RECURSIVE WMScan(_, _, _, _, _)
(* for i in indices: an antenna merged before is passed over; otherwise    *)
(* the best merge, or the antenna itself, joins new_antennas.              *)
WMScan(sol, order, merged, new_antennas, merge_count) ==
    IF order = <<>> THEN [antennas |-> new_antennas, merges |-> merge_count]
    ELSE LET i    == Head(order)
             best == IF i \in merged THEN <<>> ELSE FMBest(WMOptions(sol, i, merged), <<>>)
         IN  IF i \in merged
             THEN WMScan(sol, Tail(order), merged, new_antennas, merge_count)
             ELSE IF best # <<>>
             THEN WMScan(sol, Tail(order), merged \cup {i, best[1].j},
                         Append(new_antennas, best[1].ant), merge_count + 1)
             ELSE WMScan(sol, Tail(order), merged, Append(new_antennas, sol[i]), merge_count)

try_wide_merge(sol) == WMScan(sol, WMOrder(sol), {}, <<>>, 0)

---------------------------------------------------------------------------
(* epitech_aggressive.main: the iteration over the best solution *)

RECURSIVE AbsorbPlans(_, _)
(* for si in single_indices: the absorptions planned (absorbed is empty    *)
(* while they are planned).                                                *)
AbsorbPlans(sol, singles) ==
    IF singles = <<>> THEN <<>>
    ELSE BestTarget(sol, Head(singles),
                    AntScan(sol, AntCell(sol[Head(singles)], 200), 4, 200), {}, <<>>)
         \o AbsorbPlans(sol, Tail(singles))

RECURSIVE AbsorbApplied(_, _, _)
(* for si, ti, new_type, savings in absorptions: the ones applied. *)
AbsorbApplied(abs, absorbed, used_targets) ==
    IF abs = <<>> THEN <<>>
    ELSE IF Head(abs).si \in absorbed \/ Head(abs).ti \in used_targets
         THEN AbsorbApplied(Tail(abs), absorbed, used_targets)
         ELSE <<Head(abs)>> \o AbsorbApplied(Tail(abs), absorbed \cup {Head(abs).si},
                                             used_targets \cup {Head(abs).ti})

(* The absorptions try_absorb_into_multi applies to sol. *)
Absorptions(sol) ==
    AbsorbApplied(SortBy(AbsorbPlans(sol, SelectSeq(Indices(sol),
                                         LAMBDA i : Len(sol[i].buildings) = 1)),
                         LAMBDA e : 0 - e.savings),
                  {}, {})

(* antennas[ti]['buildings'].append(sbid): the building lists after the    *)
(* absorptions applied; first is the first building of each antenna before *)
(* them.                                                                   *)
AppendAbsorbed(sol, applied) ==
    AsList([k \in 1..Len(sol) |->
        IF \E n \in 1..Len(applied) : applied[n].ti = k
        THEN LET e == applied[CHOOSE n \in 1..Len(applied) : applied[n].ti = k]
             IN  [sol[k] EXCEPT !.buildings = Append(@, sol[e.si].buildings[1])]
        ELSE sol[k]])

(* antennas[ti]['type'] = new_type *)
SetTypes(sol, applied) ==
    AsList([k \in 1..Len(sol) |->
        IF \E n \in 1..Len(applied) : applied[n].ti = k
        THEN [sol[k] EXCEPT !.type = applied[CHOOSE n \in 1..Len(applied) : applied[n].ti = k].type]
        ELSE sol[k]])

(* try_absorb_into_multi as one call: the result and the count. *)
try_absorb_into_multi(sol) ==
    LET applied  == Absorptions(sol)
        absorbed == {applied[n].si : n \in 1..Len(applied)}
        after    == SetTypes(AppendAbsorbed(sol, applied), applied)
        keep     == SelectSeq(Indices(sol), LAMBDA i : i \notin absorbed)
    IN  [antennas |-> AsList([k \in 1..Len(keep) |-> after[keep[k]]]),
         absorbed |-> Cardinality(absorbed)]

(* [dict(a) for a in best_antennas]: the copies are new dicts that share   *)
(* the building lists of best_antennas, so the appends of the pass reach   *)
(* best_antennas; the types set in the copies do not.                      *)
SharedLists(best_antennas, applied) == AppendAbsorbed(best_antennas, applied)

(* getSolutionScore: the cost and the validity of a solution. *)
getSolutionScore(sol) == [cost |-> calculate_cost(sol), valid |-> FeasibleSolution(sol)]

(* for iteration in range(20) *)
Iterations == 20

(* main, up to the loop. *)
AggStart ==
    /\ alg = "epitech_aggressive" /\ pc = "start"
    /\ aux' = [best_antennas |-> antennas, best_cost |-> calculate_cost(antennas),
               original_cost |-> calculate_cost(antennas),
               absorbed |-> 0, merges |-> 0, scored |-> {}, saved |-> <<>>]
    /\ idx' = 0
    /\ pc' = "absorb"
    /\ UNCHANGED <<alg, buildings, uncovered, antennas>>

(* antennas, absorbed = try_absorb_into_multi([dict(a) for a in            *)
(* best_antennas], bmap)                                                   *)
AggAbsorb ==
    /\ alg = "epitech_aggressive" /\ pc = "absorb" /\ idx < Iterations
    /\ \E r \in {try_absorb_into_multi(aux.best_antennas)} :
          /\ antennas' = r.antennas
          /\ aux' = [aux EXCEPT
                       !.best_antennas = SharedLists(@, Absorptions(aux.best_antennas)),
                       !.absorbed = r.absorbed]
    /\ pc' = "merge"
    /\ UNCHANGED <<alg, buildings, uncovered, idx>>

(* optimize_types; try_wide_merge; optimize_types *)
AggMerge ==
    /\ alg = "epitech_aggressive" /\ pc = "merge"
    /\ \E r \in {try_wide_merge(optimize_types(antennas))} :
          /\ antennas' = optimize_types(r.antennas)
          /\ aux' = [aux EXCEPT !.merges = r.merges]
    /\ pc' = "score"
    /\ UNCHANGED <<alg, buildings, uncovered, idx>>

(* The solution is scored; a valid and cheaper one becomes the best, and   *)
(* an iteration that absorbed and merged nothing ends the loop.            *)
AggScore ==
    /\ alg = "epitech_aggressive" /\ pc = "score"
    /\ \E s \in {getSolutionScore(antennas)} :
          IF s.valid /\ s.cost < aux.best_cost
          THEN /\ aux' = [aux EXCEPT !.best_antennas = antennas, !.best_cost = s.cost,
                                     !.scored = @ \cup {[sol |-> antennas, valid |-> s.valid]}]
               /\ pc' = "absorb" /\ idx' = idx + 1
          ELSE /\ aux' = [aux EXCEPT !.scored = @ \cup {[sol |-> antennas, valid |-> s.valid]}]
               /\ IF aux.absorbed = 0 /\ aux.merges = 0
                  THEN pc' = "finish" /\ idx' = idx
                  ELSE pc' = "absorb" /\ idx' = idx + 1
    /\ UNCHANGED <<alg, buildings, uncovered, antennas>>

(* After the loop: the best solution is saved if it is cheaper than the    *)
(* one loaded.                                                             *)
AggFinish ==
    /\ alg = "epitech_aggressive"
    /\ pc = "finish" \/ (pc = "absorb" /\ ~(idx < Iterations))
    /\ aux' = [aux EXCEPT !.saved = IF aux.best_cost < aux.original_cost
                                    THEN <<aux.best_antennas>> ELSE <<>>]
    /\ pc' = "done"
    /\ UNCHANGED <<alg, buildings, uncovered, antennas, idx>>

InitAggressive == InitSolved({"epitech_aggressive"})

NextAggressive ==
    \/ AggStart
    \/ AggAbsorb
    \/ AggMerge
    \/ AggScore
    \/ AggFinish

SpecAggressive == InitAggressive /\ [][NextAggressive]_vars

(* C11: an operator pass on the working copy never changes the type, the   *)
(* position or the building list of an antenna of the retained best        *)
(* solution: the best solution changes only when a scored solution         *)
(* replaces it.                                                            *)
C11_BestIndependent ==
    [][(alg = "epitech_aggressive" /\ pc \in {"absorb", "merge"} /\ pc' # "done") =>
          aux'.best_antennas = aux.best_antennas]_vars

---------------------------------------------------------------------------
(* The pre-pass of the constructors, under every order of the building     *)
(* list.  'buildings' stays indexed by id (bmap); aux.order is the order   *)
(* in which the list holds the ids.                                        *)

PrePassPoints == {<<0, 0>>, <<0, 120>>, <<400, 0>>}

PrePassProfiles == {<<100, 60, 20>>, <<0, 0, 4000>>}

Orders(n) == {AsList(f) : f \in {g \in [1..n -> 1..n] : \A i, j \in 1..n : g[i] = g[j] => i = j}}

(* Mutant: only a demand no type can hold is set apart. *)
NoTypeHolds(pop) == pop > 5000

(* if pop > 3500 *)
OnlyDensityHolds(pop) == pop > 3500

(* for b in list: if pop > 3500: append a Density antenna on b holding b   *)
(* alone; uncovered.discard(b['id']).                                      *)
Phase1(list) ==
    LET high == SelectSeq(list, LAMBDA bid : OnlyDensityHolds(Pop(bid)))
    IN  [antennas  |-> AsList([k \in 1..Len(high) |->
                          Antenna("Density", BMap(high[k]).x, BMap(high[k]).y, <<high[k]>>)]),
         uncovered |-> Elems(high)]

(* The scan of GridScan over a list held in the given order. *)
GridScanIn(order, c, k, cs) ==
    SortLT(SelectSeq(order, LAMBDA bid :
               /\ CellOf(bid, cs)[1] \in (c[1] - k)..(c[1] + k)
               /\ CellOf(bid, cs)[2] \in (c[2] - k)..(c[2] + k)),
           LAMBDA p, q : PairLT(CellOf(p, cs), CellOf(q, cs)))

InitPrePass ==
    /\ alg \in {"solve_advanced", "solve_fast", "solve_hybrid"}
    /\ pc = "start"
    /\ buildings \in Datasets(PrePassPoints, PrePassProfiles)
    /\ uncovered = AllIds
    /\ antennas = <<>>
    /\ idx = 1
    /\ \E o \in Orders(Len(buildings)) : aux = [order |-> o]

(* solve_advanced, lines 134-146 *)
AdvancedPhase1In ==
    /\ alg = "solve_advanced" /\ pc = "start"
    /\ antennas' = Phase1(aux.order).antennas
    /\ uncovered' = uncovered \ Phase1(aux.order).uncovered
    /\ pc' = "loop"
    /\ UNCHANGED <<alg, buildings, idx, aux>>

---------------------------------------------------------------------------
(* fast_solution.solve_fast *)

(* sorted(buildings, key=lambda b: -get_max_population(b)) *)
sorted_buildings(order) == SortLT(order, LAMBDA p, q : Pop(p) > Pop(q))

(* SpatialIndex.get_nearby_buildings: cells_to_check = ceil(radius / cell_size) + 1 *)
cells_to_check(t, cs) == ((Range(t) + cs - 1) \div cs) + 1

FastOptionsAt(order, b, unc) ==
    LET ts == <<"Density", "MaxRange", "Spot", "Nano">>
    IN  Flatten(AsList([k \in 1..Len(ts) |->
            TypeOption(BMap(b).x, BMap(b).y, ts[k],
                       Uncov(GridScanIn(order, CellOf(b, 200), cells_to_check(ts[k], 200), 200), unc),
                       AdvancedScore)]))

FastBest(order, cands, unc) ==
    FirstBest(Flatten(AsList([k \in 1..Len(cands) |-> FastOptionsAt(order, cands[k], unc)])), <<>>)

FastPhase1 ==
    /\ alg = "solve_fast" /\ pc = "start"
    /\ antennas' = Phase1(sorted_buildings(aux.order)).antennas
    /\ uncovered' = uncovered \ Phase1(sorted_buildings(aux.order)).uncovered
    /\ pc' = "loop"
    /\ UNCHANGED <<alg, buildings, idx, aux>>

(* One pass through the body of 'while uncovered'; with no option and no   *)
(* fallback type, best_option['buildings'] raises.                         *)
FastIterate ==
    /\ alg = "solve_fast" /\ pc = "loop" /\ uncovered # {}
    /\ \E ant \in {OrFallback(FastBest(aux.order, SetToSeq(uncovered), uncovered), MinId(uncovered))} :
          IF ant # <<>>
          THEN /\ antennas' = Append(antennas, ant[1])
               /\ uncovered' = Discard(uncovered, ant[1])
               /\ pc' = "loop"
          ELSE /\ pc' = "crashed"
               /\ UNCHANGED <<antennas, uncovered>>
    /\ idx' = idx + 1
    /\ UNCHANGED <<alg, buildings, aux>>

FastReturn ==
    /\ alg = "solve_fast" /\ pc = "loop" /\ uncovered = {}
    /\ pc' = "done"
    /\ UNCHANGED <<alg, buildings, uncovered, antennas, idx, aux>>

---------------------------------------------------------------------------
(* optimize_suburbia_v4.solve_hybrid *)

(* min_dist > 150 over the other buildings (inf when there is none) *)
isolated == {b \in AllIds : \A o \in AllIds \ {b} :
                dist_sq(BMap(b).x, BMap(b).y, BMap(o).x, BMap(o).y) > 150 * 150}

clustered == AllIds \ isolated

RECURSIVE HybridSweep(_, _, _, _, _, _)
(* for b in sites: if b is uncovered, pack the uncovered buildings of the  *)
(* cells within k of b's that lie in t's range; place t on b when at least *)
(* 'least' buildings were selected.                                        *)
HybridSweep(order, sites, t, k, least, st) ==
    IF sites = <<>> THEN st
    ELSE LET b == Head(sites)
             p == Pack(InRangeOf(BMap(b).x, BMap(b).y, t,
                                 Uncov(GridScanIn(order, CellOf(b, 200), k, 200), st.uncovered)), t)
         IN  IF b \in st.uncovered /\ Len(p.selected) >= least
             THEN HybridSweep(order, Tail(sites), t, k, least,
                      [antennas  |-> Append(st.antennas, Antenna(t, BMap(b).x, BMap(b).y, p.selected)),
                       uncovered |-> st.uncovered \ Elems(p.selected)])
             ELSE HybridSweep(order, Tail(sites), t, k, least, st)

(* Phase 4, one building: the types whose capacity holds it, tried in the  *)
(* order Density, MaxRange, Spot, Nano with score len(selected) / cost.    *)
HybridOptionsAt(order, b, unc) ==
    LET ts == SelectSeq(<<"Density", "MaxRange", "Spot", "Nano">>,
                        LAMBDA t : ~(Capacity(t) < Pop(b)))
    IN  Flatten(AsList([k \in 1..Len(ts) |->
            TypeOption(BMap(b).x, BMap(b).y, ts[k],
                       Uncov(GridScanIn(order, CellOf(b, 200), CellsCheck(ts[k], 200), 200), unc),
                       PerCostScore)]))

RECURSIVE HybridRemaining(_, _, _)
HybridRemaining(order, remaining, st) ==
    IF remaining = <<>> THEN st
    ELSE LET b == Head(remaining)
             best == FirstBest(HybridOptionsAt(order, b, st.uncovered), <<>>)
         IN  IF b \in st.uncovered /\ best # <<>>
             THEN HybridRemaining(order, Tail(remaining),
                      [antennas  |-> Append(st.antennas, AntennaOf(best[1])),
                       uncovered |-> Discard(st.uncovered, best[1])])
             ELSE HybridRemaining(order, Tail(remaining), st)

HybridPhase1 ==
    /\ alg = "solve_hybrid" /\ pc = "start"
    /\ antennas' = Phase1(aux.order).antennas
    /\ uncovered' = uncovered \ Phase1(aux.order).uncovered
    /\ pc' = "isolated"
    /\ UNCHANGED <<alg, buildings, idx, aux>>

(* Phase 2: MaxRange on isolated buildings, taken by (x, y), when it       *)
(* covers two or more.                                                     *)
HybridPhase2 ==
    /\ alg = "solve_hybrid" /\ pc = "isolated"
    /\ \E st \in {HybridSweep(aux.order,
                      SortLT(SetToSeq(isolated \cap uncovered),
                             LAMBDA p, q : PairLT(<<BMap(p).x, BMap(p).y>>, <<BMap(q).x, BMap(q).y>>)),
                      "MaxRange", 2, 2, [antennas |-> antennas, uncovered |-> uncovered])} :
           antennas' = st.antennas /\ uncovered' = st.uncovered
    /\ pc' = "clustered"
    /\ UNCHANGED <<alg, buildings, idx, aux>>

(* Phase 3: Density on clustered buildings. *)
HybridPhase3 ==
    /\ alg = "solve_hybrid" /\ pc = "clustered"
    /\ \E st \in {HybridSweep(aux.order, SetToSeq(clustered \cap uncovered),
                      "Density", 1, 1, [antennas |-> antennas, uncovered |-> uncovered])} :
           antennas' = st.antennas /\ uncovered' = st.uncovered
    /\ pc' = "remaining"
    /\ UNCHANGED <<alg, buildings, idx, aux>>

(* Phase 4 and the return. *)
HybridPhase4 ==
    /\ alg = "solve_hybrid" /\ pc = "remaining"
    /\ \E st \in {HybridRemaining(aux.order, SetToSeq(uncovered),
                      [antennas |-> antennas, uncovered |-> uncovered])} :
           antennas' = st.antennas /\ uncovered' = st.uncovered
    /\ pc' = "done"
    /\ UNCHANGED <<alg, buildings, idx, aux>>

NextPrePass ==
    \/ AdvancedPhase1In \/ AdvancedIterate \/ AdvancedReturn
    \/ FastPhase1 \/ FastIterate \/ FastReturn
    \/ HybridPhase1 \/ HybridPhase2 \/ HybridPhase3 \/ HybridPhase4

SpecPrePass == InitPrePass /\ [][NextPrePass]_vars

(* C15: in the solution a constructor returns, whatever the order of the   *)
(* building list, every building whose demand exceeds 3500 is the only     *)
(* building of a Density antenna placed on the building, and no other      *)
(* antenna lists it.                                                       *)
C15_HighDemandAlone ==
    pc = "done" =>
        \A bid \in AllIds : Pop(bid) > 3500 =>
            \E k \in 1..Len(antennas) :
                /\ antennas[k] = Antenna("Density", BMap(bid).x, BMap(bid).y, <<bid>>)
                /\ \A j \in (1..Len(antennas)) \ {k} : bid \notin Elems(antennas[j].buildings)

(* A returned solution over a list held out of id order, where a building  *)
(* above 3500 stands beside a small one within Density range.              *)
C15_Witness ==
    /\ pc = "done" /\ Len(buildings) = 3 /\ aux.order = <<3, 1, 2>>
    /\ Pop(1) <= 3500 /\ Pop(2) > 3500 /\ Pop(3) > 3500
    /\ dist_sq(BMap(1).x, BMap(1).y, BMap(2).x, BMap(2).y) = 120 * 120
    /\ Len(antennas) = 3

---------------------------------------------------------------------------
(* Repositioning: epitech_reposition.find_optimal_positions and            *)
(* manhattan_deep.aggressive_reposition                                    *)

RepositionPoints == {<<0, 0>>, <<0, 120>>, <<0, 240>>}

(* building_to_antenna: the buildings some antenna of the solution lists. *)
Claimed(sol) == UNION {Elems(sol[k].buildings) : k \in 1..Len(sol)}

RECURSIVE SumOver(_, _)
SumOver(bids, coord) ==
    IF bids = <<>> THEN 0 ELSE BMap(Head(bids))[coord] + SumOver(Tail(bids), coord)

(* (cx // cell_size, cy // cell_size) of the centroid of the buildings *)
CentroidCell(bids, cs) ==
    <<(SumOver(bids, "x") \div Len(bids)) \div cs, (SumOver(bids, "y") \div Len(bids)) \div cs>>

(* Mutant: one current building in range is enough. *)
some_current_ok(x, y, t, bids) == \E k \in 1..Len(bids) : InRange(x, y, t, bids[k])

(* all(dist_sq(pos, b) <= r2 for b in current_blds) *)
all_current_ok(x, y, t, bids) == \A k \in 1..Len(bids) : InRange(x, y, t, bids[k])

RECURSIVE WithExtras(_, _, _, _, _, _, _)
(* for extra_b in ...: skip the listed and the claimed; append while in    *)
(* range and covered_pop + extra_pop <= capacity.                          *)
WithExtras(extras, x, y, t, claimed, covered_bids, covered_pop) ==
    IF extras = <<>> THEN covered_bids
    ELSE LET e == Head(extras)
         IN  IF /\ e \notin Elems(covered_bids)
                /\ e \notin claimed
                /\ InRange(x, y, t, e)
                /\ covered_pop + Pop(e) <= Capacity(t)
             THEN WithExtras(Tail(extras), x, y, t, claimed, Append(covered_bids, e),
                             covered_pop + Pop(e))
             ELSE WithExtras(Tail(extras), x, y, t, claimed, covered_bids, covered_pop)

(* find_optimal_positions: the (position, type) pairs tried for one        *)
(* antenna, in scan order; the extras come from the candidate's cell.      *)
FOPTrials(ant, claimed) ==
    LET cands == GridScan(CentroidCell(ant.buildings, 200), 3, 200)
        ts == <<"Density", "MaxRange">>
        trial(c, t) ==
            IF all_current_ok(BMap(c).x, BMap(c).y, t, ant.buildings)
            THEN <<Antenna(t, BMap(c).x, BMap(c).y,
                           WithExtras(CellList(CellOf(c, 200), 200), BMap(c).x, BMap(c).y, t,
                                      claimed, ant.buildings, SumPop(ant.buildings)))>>
            ELSE <<>>
    IN  Flatten(AsList([n \in 1..(Len(cands) * 2) |->
            trial(cands[((n - 1) \div 2) + 1], ts[((n - 1) % 2) + 1])]))

(* more buildings at no higher cost, or a lower cost with no fewer *)
FOPDominates(o, best) ==
    \/ Len(o.buildings) > Len(best.buildings) /\ Cost(o.type) <= Cost(best.type)
    \/ Cost(o.type) < Cost(best.type) /\ Len(o.buildings) >= Len(best.buildings)

RECURSIVE FOPBest(_, _)
FOPBest(trials, best) ==
    IF trials = <<>> THEN best
    ELSE FOPBest(Tail(trials), IF FOPDominates(Head(trials), best) THEN Head(trials) ELSE best)

find_optimal_positions(sol) ==
    AsList([k \in 1..Len(sol) |->
        IF Len(sol[k].buildings) = 1 THEN sol[k]
        ELSE FOPBest(FOPTrials(sol[k], Claimed(sol)), sol[k])])

(* aggressive_reposition: at each candidate position the first type, in    *)
(* the order Density, MaxRange, Spot, Nano, that reaches every current     *)
(* building ('break'); the extras come from the cells around the position. *)
ARTrials(ant, claimed) ==
    LET cands == GridScan(CentroidCell(ant.buildings, 200), 6, 200)
        trial(c) ==
            LET ts == SelectSeq(<<"Density", "MaxRange", "Spot", "Nano">>,
                                LAMBDA t : all_current_ok(BMap(c).x, BMap(c).y, t, ant.buildings))
            IN  IF ts = <<>> THEN <<>>
                ELSE <<Antenna(ts[1], BMap(c).x, BMap(c).y,
                               WithExtras(GridScan(CellOf(c, 200), CellsCheck(ts[1], 200), 200),
                                          BMap(c).x, BMap(c).y, ts[1],
                                          claimed, ant.buildings, SumPop(ant.buildings)))>>
    IN  Flatten(AsList([n \in 1..Len(cands) |-> trial(cands[n])]))

(* score = len(covered_bids) * 1000000 / cost; score > best_score *)
ARScoreGT(o, best) ==
    Len(o.buildings) * Cost(best.type) > Len(best.buildings) * Cost(o.type)

RECURSIVE ARBest(_, _)
ARBest(trials, best) ==
    IF trials = <<>> THEN best
    ELSE ARBest(Tail(trials), IF ARScoreGT(Head(trials), best) THEN Head(trials) ELSE best)

aggressive_reposition(sol) ==
    AsList([k \in 1..Len(sol) |-> ARBest(ARTrials(sol[k], Claimed(sol)), sol[k])])

InitReposition ==
    /\ alg \in {"find_optimal_positions", "aggressive_reposition"}
    /\ pc = "start"
    /\ buildings \in Datasets(RepositionPoints, SolvedProfiles)
    /\ uncovered = {}
    /\ antennas \in FeasibleSolutions(AllIds)
    /\ idx = 1
    /\ aux = <<>>

FOPApply ==
    /\ alg = "find_optimal_positions" /\ pc = "start"
    /\ antennas' = find_optimal_positions(antennas)
    /\ aux' = [input |-> antennas]
    /\ pc' = "done"
    /\ UNCHANGED <<alg, buildings, uncovered, idx>>

ARApply ==
    /\ alg = "aggressive_reposition" /\ pc = "start"
    /\ antennas' = aggressive_reposition(antennas)
    /\ aux' = [input |-> antennas]
    /\ pc' = "done"
    /\ UNCHANGED <<alg, buildings, uncovered, idx>>

NextReposition == FOPApply \/ ARApply

SpecReposition == InitReposition /\ [][NextReposition]_vars

(* C16: a reposition operator applied to a feasible solution returns, for  *)
(* each antenna, an antenna that still lists every building the antenna    *)
(* had, reaches all its buildings from its position with its type's        *)
(* radius, holds their total demand, and lists no building of another      *)
(* antenna of the solution.                                                *)
C16_RepositionKeeps ==
    pc = "done" =>
        /\ Len(antennas) = Len(aux.input)
        /\ \A k \in 1..Len(antennas) :
              /\ Elems(aux.input[k].buildings) \subseteq Elems(antennas[k].buildings)
              /\ RangeOk(antennas[k])
              /\ CapacityOk(antennas[k])
              /\ \A j \in (1..Len(antennas)) \ {k} :
                    Elems(antennas[k].buildings) \cap Elems(aux.input[j].buildings) = {}

(* An antenna of three buildings was moved to another building and given   *)
(* another type.                                                           *)
C16_Witness ==
    /\ pc = "done" /\ Len(antennas) = 1 /\ Len(antennas[1].buildings) = 3
    /\ aux.input[1].type = "MaxRange" /\ antennas[1].type = "Density"
    /\ <<antennas[1].x, antennas[1].y>> # <<aux.input[1].x, aux.input[1].y>>

---------------------------------------------------------------------------
(* suburbia_sa_fast: the moves *)

FastProfiles == {<<100, 60, 20>>, <<500, 300, 200>>}

(* get_cheapest_type: the first type of TYPE_ORDER that holds the demand   *)
(* and reaches every building from (x, y); None (<<>>) when there is none. *)
get_cheapest_type(x, y, bids) ==
    FirstOf(SelectSeq(<<"Nano", "Spot", "Density", "MaxRange">>,
                LAMBDA t : ~(Capacity(t) < SumPop(bids)) /\ all_current_ok(x, y, t, bids)))

(* Mutant: a merge is returned whatever it costs. *)
AnyMerge(new_cost, old_cost) == TRUE

(* if new_cost <= old_cost *)
MergeAccepted(new_cost, old_cost) == new_cost <= old_cost

(* try_merge with the random indices i and j (counted from 1): the first   *)
(* of the two positions whose cheapest type is accepted gives the merged   *)
(* solution; None (<<>>) otherwise.                                        *)
sa_fast_try_merge(sol, i, j) ==
    IF Len(sol) < 2 \/ i = j THEN <<>>
    ELSE IF dist_sq(sol[i].x, sol[i].y, sol[j].x, sol[j].y) > 640000 THEN <<>>
    ELSE LET combined == sol[i].buildings \o sol[j].buildings
             old_cost == Cost(sol[i].type) + Cost(sol[j].type)
             rest == SelectSeq(AsList([k \in 1..Len(sol) |-> <<k, sol[k]>>]),
                               LAMBDA e : e[1] \notin {i, j})
             merged(a) ==
                 LET new_type == get_cheapest_type(a.x, a.y, combined)
                 IN  IF new_type # <<>> /\ MergeAccepted(Cost(new_type[1]), old_cost)
                     THEN <<Append(AsList([k \in 1..Len(rest) |-> rest[k][2]]),
                                   Antenna(new_type[1], a.x, a.y, combined))>>
                     ELSE <<>>
         IN  FirstOf(merged(sol[i]) \o merged(sol[j]))

InitFastMerge ==
    /\ alg = "suburbia_sa_fast"
    /\ pc = "start"
    /\ buildings \in Datasets(SolvedPoints, FastProfiles)
    /\ uncovered = {}
    /\ antennas \in FeasibleSolutions(AllIds)
    /\ idx = 1
    /\ aux = <<>>

(* new_sol = try_merge(current, bmap), i and j drawn by random.randint *)
SAFastTryMerge ==
    /\ alg = "suburbia_sa_fast" /\ pc = "start"
    /\ \E i, j \in 1..Max2(Len(antennas), 1) :
          /\ aux' = [input |-> antennas, i |-> i, j |-> j, new_sol |-> sa_fast_try_merge(antennas, i, j)]
          /\ antennas' = IF sa_fast_try_merge(antennas, i, j) = <<>> THEN antennas
                         ELSE sa_fast_try_merge(antennas, i, j)[1]
    /\ pc' = "merged"
    /\ UNCHANGED <<alg, buildings, uncovered, idx>>

NextFastMerge == SAFastTryMerge

SpecFastMerge == InitFastMerge /\ [][NextFastMerge]_vars

(* C17: when try_merge of suburbia_sa_fast returns a merged solution, the  *)
(* merged antenna costs strictly less than the two antennas it replaces    *)
(* cost together.                                                          *)
C17_MergeStrictlyCheaper ==
    (pc = "merged" /\ aux.new_sol # <<>>) =>
        Cost(antennas[Len(antennas)].type)
            < Cost(aux.input[aux.i].type) + Cost(aux.input[aux.j].type)

---------------------------------------------------------------------------
(* epitech_aggressive.main on a dataset of six buildings *)

PersistBuildings ==
    <<Building(1, <<0, 120>>, <<300, 0, 0>>), Building(2, <<0, 40>>, <<50, 0, 0>>),
      Building(3, <<140, 0>>, <<3000, 0, 0>>), Building(4, <<0, 120>>, <<150, 0, 0>>),
      Building(5, <<0, 120>>, <<100, 0, 0>>), Building(6, <<60, 0>>, <<150, 0, 0>>)>>

(* The solution loaded: any feasible solution of five antennas in which    *)
(* buildings 2 and 4 share the second antenna.                             *)
InitPersist ==
    /\ alg = "epitech_aggressive"
    /\ pc = "start"
    /\ buildings = PersistBuildings
    /\ uncovered = {}
    /\ antennas \in {s \in FeasibleSolutions(AllIds) : Len(s) = 5 /\ s[2].buildings = <<2, 4>>}
    /\ idx = 1
    /\ aux = <<>>

SpecPersist == InitPersist /\ [][NextAggressive]_vars

(* C18: the solution a driver writes to the solutions directory is one the *)
(* scorer was called on, with the same antennas, types, positions and      *)
(* building lists, and found valid; the retained best solution is the      *)
(* loaded one or one the scorer found valid.                               *)
C18_SavedWasValidated ==
    /\ (pc = "done" /\ aux.saved # <<>>) =>
          \E r \in aux.scored : r.sol = aux.saved[1] /\ r.valid
    /\ (pc \notin {"start", "done"} /\ aux.best_cost < aux.original_cost) =>
          \E r \in aux.scored : r.sol = aux.best_antennas /\ r.valid

---------------------------------------------------------------------------
(* suburbia_sa_fast.simulated_annealing, and the cooling of the three      *)
(* annealing drivers                                                       *)

(* try_relocate with the random antenna idx and the random building bid of *)
(* it: the antenna is moved onto the building when the cheapest type       *)
(* there costs less; None (<<>>) otherwise.                                *)
sa_fast_try_relocate(sol, i, bid) ==
    LET new_type == get_cheapest_type(BMap(bid).x, BMap(bid).y, sol[i].buildings)
    IN  IF new_type # <<>> /\ Cost(new_type[1]) < Cost(sol[i].type)
        THEN <<[sol EXCEPT ![i] = Antenna(new_type[1], BMap(bid).x, BMap(bid).y, sol[i].buildings)]>>
        ELSE <<>>

(* The results try_merge and try_relocate can give on sol, over the random *)
(* draws.                                                                  *)
SAFastMoves(sol) ==
    IF sol = <<>> THEN {<<>>}
    ELSE {sa_fast_try_merge(sol, i, j) : i, j \in 1..Len(sol)}
         \cup UNION {{sa_fast_try_relocate(sol, i, bid) : bid \in Elems(sol[i].buildings)}
                     : i \in 1..Len(sol)}

(* for i in range(max_iter) *)
InBudget == aux.iteration < aux.max_iterations

(* One pass through the loop body. *)
SAFastIterate ==
    /\ alg = "suburbia_sa_fast" /\ pc = "anneal" /\ InBudget
    /\ \E new_sol \in SAFastMoves(antennas) :
          IF new_sol = <<>> THEN NoOp("none")
          ELSE IF calculate_cost(new_sol[1]) - aux.current_cost < 0
               THEN Accept(new_sol[1], TRUE)
               ELSE IF ~Above(aux.temp, MinTemp) THEN NoOp("rejected")
               ELSE \E lucky \in Chance(calculate_cost(new_sol[1]) - aux.current_cost) :
                       IF lucky THEN Accept(new_sol[1], TRUE) ELSE NoOp("rejected")
    /\ UNCHANGED <<alg, pc, buildings, uncovered, idx>>

(* return best, best_cost *)
SAFastReturn ==
    /\ alg = "suburbia_sa_fast" /\ pc = "anneal" /\ ~InBudget
    /\ aux' = [aux EXCEPT !.returned = <<aux.best, aux.best_cost>>]
    /\ pc' = "done"
    /\ UNCHANGED <<alg, buildings, uncovered, antennas, idx>>

InitCooling ==
    /\ alg \in {"suburbia_simulated_annealing", "suburbia_sa_v2", "suburbia_sa_fast"}
    /\ pc = "start"
    /\ buildings \in Datasets(SolvedPoints, FastProfiles)
    /\ uncovered = {}
    /\ antennas \in TypedSolutions(AllIds)
    /\ idx = 1
    /\ aux = <<>>

NextCooling ==
    \/ SAStart
    \/ SA1Iterate
    \/ SA2Iterate
    \/ SAReturn
    \/ SAFastIterate
    \/ SAFastReturn

SpecCooling == InitCooling /\ [][NextCooling]_vars

(* C19: an annealing driver goes through the loop body only while the      *)
(* temperature is above the floor and the iteration budget is not          *)
(* exhausted, every pass advancing the iteration count by one, and it      *)
(* returns as soon as either fails.                                        *)
C19_StopsAtFloorOrBudget ==
    [][pc = "anneal" =>
          IF Above(aux.temp, MinTemp) /\ aux.iteration < aux.max_iterations
          THEN pc' = "anneal" /\ aux'.iteration = aux.iteration + 1
          ELSE pc' = "done" /\ aux'.iteration = aux.iteration]_vars

RECURSIVE Power(_, _)
Power(b, k) == IF k = 0 THEN 1 ELSE b * Power(b, k - 1)

---------------------------------------------------------------------------
(* suburbia_sa_v2 with its pseudo-random draws made explicit               *)

(* The pseudo-random source is a periodic stream of raw values; the raw    *)
(* value k stands for the float k / 5 of random.random().  A source is a   *)
(* pair of the stream and of the position of the next value.               *)
RawValues == 0..4

Streams == [1..3 -> RawValues]

Raw(rng) == rng.stream[((rng.pos - 1) % Len(rng.stream)) + 1]

Advance(rng) == [rng EXCEPT !.pos = @ + 1]

(* Mutant: seeding leaves the source where the last run left it. *)
Unseeded(rng) == rng

(* random.seed(42): the stream starts over. *)
Seeded(rng) == [rng EXCEPT !.pos = 1]

(* random._randbelow(n), the draw behind choice, randint and shuffle. *)
randbelow(n, rng) == [value |-> Raw(rng) % n, rng |-> Advance(rng)]

(* random.choice(seq) *)
choice(seq, rng) == [value |-> seq[randbelow(Len(seq), rng).value + 1], rng |-> Advance(rng)]

Swap(x, i, j) == [x EXCEPT ![i] = x[j], ![j] = x[i]]

(* random.shuffle(x): for i in reversed(range(1, len(x))): j = randbelow(i *)
(* + 1); x[i], x[j] = x[j], x[i].  Here i counts from 1.                   *)
RECURSIVE shuffle(_, _, _)
shuffle(x, i, rng) ==
    IF i < 2 THEN [value |-> x, rng |-> rng]
    ELSE shuffle(Swap(x, i, randbelow(i, rng).value + 1), i - 1, Advance(rng))

(* A move's result together with the source it leaves. *)
Drawn(res, rng) == [res |-> res, rng |-> rng]

(* try_move_building with the draws of rng: the source antenna, the        *)
(* building, and the order of the targets.                                 *)
MoveBuildingDrawn(sol, rng) ==
    LET multi == SelectSeq(Indices(sol), LAMBDA i : Len(sol[i].buildings) > 1)
    IN  IF Len(sol) < 2 \/ multi = <<>> THEN Drawn(None, rng)
        ELSE LET src_idx == choice(multi, rng)
                 bid == choice(sol[src_idx.value].buildings, src_idx.rng)
                 indices == shuffle(Indices(sol), Len(sol), bid.rng)
                 ok == SelectSeq(indices.value, LAMBDA tgt_idx :
                           tgt_idx \in MoveTargets(sol, src_idx.value, bid.value))
             IN  IF ok = <<>> THEN Drawn(None, indices.rng)
                 ELSE Drawn(Some(Moved(sol, src_idx.value, bid.value, ok[1])), indices.rng)

(* The pairs (i, j) in the order of the two nested loops over indices. *)
PairsInOrder(indices) ==
    Flatten(AsList([a \in 1..Len(indices) |->
                AsList([b \in 1..Len(indices) |-> <<indices[a], indices[b]>>])]))

(* suburbia_sa_v2.try_merge with the draws of rng: the order of indices. *)
MergeDrawn(sol, rng) ==
    IF Len(sol) < 2 THEN Drawn(None, rng)
    ELSE LET indices == shuffle(Indices(sol), Len(sol), rng)
             ok == SelectSeq(PairsInOrder(indices.value),
                             LAMBDA pr : pr \in MergePairs(sol, FALSE))
         IN  IF ok = <<>> THEN Drawn(None, indices.rng)
             ELSE Drawn(Some(RemoveAt([sol EXCEPT ![ok[1][1]] =
                                MergedAt(MovePositions(sol[ok[1][1]], sol[ok[1][2]], FALSE),
                                         sol[ok[1][1]], sol[ok[1][2]])[1]], ok[1][2])),
                        indices.rng)

(* try_relocate with the draws of rng: the antenna (random.randint) and    *)
(* the building whose position it takes.                                   *)
RelocateDrawn(sol, rng) ==
    IF sol = <<>> THEN Drawn(None, rng)
    ELSE LET i == randbelow(Len(sol), rng)
         IN  IF sol[i.value + 1].buildings = <<>> THEN Drawn(None, i.rng)
             ELSE LET target_bid == choice(sol[i.value + 1].buildings, i.rng)
                  IN  Drawn(Relocated(sol, i.value + 1, target_bid.value), target_bid.rng)

(* The move number k of [try_move_building, try_merge, try_relocate]. *)
MoveDrawn(k, sol, rng) ==
    CASE k = 1 -> MoveBuildingDrawn(sol, rng)
      [] k = 2 -> MergeDrawn(sol, rng)
      [] OTHER -> RelocateDrawn(sol, rng)

(* for func in [try_move_building, try_merge, try_relocate]: the first     *)
(* result from move k on, or none.                                         *)
RECURSIVE Fallback(_, _, _)
Fallback(k, sol, rng) ==
    IF k > 3 THEN Drawn(None, rng)
    ELSE IF MoveDrawn(k, sol, rng).res.ok THEN MoveDrawn(k, sol, rng)
    ELSE Fallback(k + 1, sol, MoveDrawn(k, sol, rng).rng)

(* r = random.random(); r < 0.5: move, r < 0.8: merge, else relocate. *)
MoveOf(raw) == IF raw * 10 < 5 * 5 THEN 1 ELSE IF raw * 10 < 8 * 5 THEN 2 ELSE 3

(* suburbia_sa_v2.neighbor with the draws of rng. *)
NeighborDrawn(sol, rng) ==
    LET first == MoveDrawn(MoveOf(Raw(rng)), sol, Advance(rng))
    IN  IF first.res.ok THEN first ELSE Fallback(1, sol, first.rng)

(* random.random() < math.exp(-delta / temp) for delta >= 0: certain when  *)
(* delta = 0.  When delta > 0 it is at least the cost of a Nano and the    *)
(* temperature at most the largest of InitialTemps, so the right-hand side *)
(* is below 1 / 5 and only the raw value 0 can pass; it is the float 0.0,  *)
(* which nothing passes, once delta / temp exceeds 745 (math.exp           *)
(* underflows).                                                            *)
Lucky(raw, delta, temp) == delta = 0 \/ (raw = 0 /\ delta * temp.d <= 745 * temp.n)

(* Mutant: the locals of the previous call are still in place. *)
StaleLocals(initial_temp, left) == left

(* temp = initial_temp; iteration = 0 *)
FreshLocals(initial_temp, left) == [temp |-> [n |-> initial_temp, d |-> 1], iteration |-> 0]

(* A call of simulated_annealing on aux.input after random.seed. *)
ReplayCall(run) ==
    /\ antennas' = aux.input
    /\ aux' = [aux EXCEPT
                 !.run = run,
                 !.rng = Seeded(@),
                 !.best = aux.input,
                 !.current_cost = calculate_cost(aux.input),
                 !.best_cost = calculate_cost(aux.input),
                 !.iteration = FreshLocals(aux.initial_temp,
                                   [temp |-> aux.temp, iteration |-> aux.iteration]).iteration,
                 !.temp = FreshLocals(aux.initial_temp,
                              [temp |-> aux.temp, iteration |-> aux.iteration]).temp,
                 !.first = IF run = 2 THEN aux.returned ELSE @,
                 !.draws = IF run = 2 THEN <<aux.rng.pos - 1>> ELSE @,
                 !.returned = <<>>]
    /\ pc' = "anneal"
    /\ UNCHANGED <<alg, buildings, uncovered, idx>>

(* The first run. *)
ReplayStart == pc = "start" /\ ReplayCall(1)

(* The second run, on the same arguments, after the first has returned. *)
ReplayAgain == pc = "done" /\ aux.run = 1 /\ ReplayCall(2)

(* The state of the driver after an iteration that leaves the source rng. *)
ReplayNoOp(rng) ==
    /\ aux' = [aux EXCEPT !.iteration = @ + 1, !.temp = Cooled(@), !.rng = rng]
    /\ UNCHANGED antennas

ReplayAccept(sol, rng) ==
    /\ antennas' = sol
    /\ aux' = [aux EXCEPT
                 !.current_cost = calculate_cost(sol),
                 !.best = IF Improves(calculate_cost(sol), aux.best_cost) THEN sol ELSE @,
                 !.best_cost = IF Improves(calculate_cost(sol), aux.best_cost)
                               THEN calculate_cost(sol) ELSE @,
                 !.iteration = @ + 1, !.temp = Cooled(@), !.rng = rng]

(* One iteration of suburbia_sa_v2.simulated_annealing, its draws taken    *)
(* from the source.                                                        *)
ReplayIterate ==
    /\ pc = "anneal" /\ Annealing
    /\ LET new_solution == NeighborDrawn(antennas, aux.rng)
           delta == calculate_cost(new_solution.res.sol) - aux.current_cost
       IN  IF ~new_solution.res.ok THEN ReplayNoOp(new_solution.rng)
           ELSE IF ~validate_solution_fast(new_solution.res.sol)
                THEN ReplayNoOp(new_solution.rng)
           ELSE IF delta < 0 THEN ReplayAccept(new_solution.res.sol, new_solution.rng)
           ELSE IF Lucky(Raw(new_solution.rng), delta, aux.temp)
                THEN ReplayAccept(new_solution.res.sol, Advance(new_solution.rng))
                ELSE ReplayNoOp(Advance(new_solution.rng))
    /\ UNCHANGED <<alg, pc, buildings, uncovered, idx>>

(* return best, best_cost *)
ReplayReturn ==
    /\ pc = "anneal" /\ ~Annealing
    /\ aux' = [aux EXCEPT !.returned = <<aux.best, aux.best_cost>>]
    /\ pc' = "done"
    /\ UNCHANGED <<alg, buildings, uncovered, antennas, idx>>

(* Demands of the replayed datasets. *)
ReplayProfiles == {<<100, 60, 20>>}

(* A dataset, a feasible initial solution, an initial temperature and a    *)
(* source that has been drawn from once; the iteration budget is           *)
(* MaxIterations.                                                          *)
InitReplay ==
    /\ alg = "suburbia_sa_v2"
    /\ pc = "start"
    /\ buildings \in Datasets(SolvedPoints, ReplayProfiles)
    /\ uncovered = {}
    /\ antennas \in TypedSolutions(AllIds)
    /\ idx = 1
    /\ \E t \in InitialTemps, s \in Streams :
          aux = [input |-> antennas, initial_temp |-> t, max_iterations |-> MaxIterations,
                 rng |-> [stream |-> s, pos |-> 2], run |-> 0,
                 best |-> <<>>, current_cost |-> 0, best_cost |-> 0,
                 temp |-> [n |-> t, d |-> 1], iteration |-> 0,
                 first |-> <<>>, draws |-> <<>>, returned |-> <<>>]

NextReplay ==
    \/ ReplayStart
    \/ ReplayIterate
    \/ ReplayReturn
    \/ ReplayAgain

SpecReplay == InitReplay /\ [][NextReplay]_vars

---------------------------------------------------------------------------
(* SpatialGrid (advanced_solution) and SpatialIndex (fast_solution)        *)

(* Sites of the indexed buildings and the queries put to the index: points *)
(* left of, on and right of the sites, in cells with and without a         *)
(* building, and radii from 0 to the range of a Density antenna.           *)
IndexedPoints == {<<0, 0>>, <<110, 0>>, <<-50, -30>>}

IndexedProfiles == {<<100, 60, 20>>}

QueryPoints == {<<-150, 0>>, <<90, 0>>, <<250, 0>>, <<-150, -60>>, <<90, -60>>, <<250, -60>>}

QueryRadii == {0, 50, 150}

(* SpatialGrid(buildings, cell_size=100) in solve_advanced,                *)
(* SpatialIndex(buildings, cell_size=200) in solve_fast.                   *)
CellSizeOf(a) == IF a = "SpatialGrid" THEN 100 ELSE 200

(* __init__: grid[(b['x'] // cell_size, b['y'] // cell_size)].append(b['id']) *)
BuiltGrid(cs) == [c \in {CellOf(bid, cs) : bid \in AllIds} |-> CellList(c, cs)]

(* Mutant: the cell of the query point and no cell around it. *)
OwnCellOnly(a, radius, cs) == 0

(* cells = int(radius / cell_size) + 1 in get_in_range,                    *)
(* cells_to_check = int(math.ceil(radius / cell_size)) + 1 in              *)
(* get_nearby_buildings.                                                   *)
CellsScanned(a, radius, cs) ==
    IF a = "SpatialGrid" THEN (radius \div cs) + 1 ELSE ((radius + cs - 1) \div cs) + 1

(* for dx in range(-k, k + 1): for dy in range(-k, k + 1): (cx + dx, cy + dy) *)
CellsAround(c, k) ==
    Flatten(AsList([dx \in 1..(2 * k + 1) |->
                AsList([dy \in 1..(2 * k + 1) |-> <<c[1] + dx - k - 1, c[2] + dy - k - 1>>])]))

(* self.grid[cell] of a defaultdict(list): the list of the cell, empty for *)
(* a cell that has none yet.                                               *)
GridAt(grid, c) == IF c \in DOMAIN grid THEN grid[c] ELSE <<>>

(* The grid after the cells scanned have been looked up: each has a list. *)
Touched(grid, cells) == [c \in DOMAIN grid \cup Elems(cells) |-> GridAt(grid, c)]

(* get_in_range(x, y, radius) / get_nearby_buildings(x, y, radius): the    *)
(* ids met in the cells scanned whose squared distance is within radius    *)
(* squared, in the order met.                                              *)
get_in_range(a, grid, x, y, radius, cs) ==
    LET cells == CellsAround(<<x \div cs, y \div cs>>, CellsScanned(a, radius, cs))
        met == Flatten(AsList([k \in 1..Len(cells) |-> GridAt(grid, cells[k])]))
    IN  SelectSeq(met, LAMBDA bid :
            dist_sq(x, y, BMap(bid).x, BMap(bid).y) <= radius * radius)

InitIndex ==
    /\ alg \in {"SpatialGrid", "SpatialIndex"}
    /\ pc = "start"
    /\ buildings \in Datasets(IndexedPoints, IndexedProfiles)
    /\ uncovered = {}
    /\ antennas = <<>>
    /\ idx = 1
    /\ aux = <<>>

(* The index is built over the buildings. *)
IndexBuild ==
    /\ pc = "start"
    /\ aux' = [cell_size |-> CellSizeOf(alg), grid |-> BuiltGrid(CellSizeOf(alg)),
               x |-> 0, y |-> 0, radius |-> 0, result |-> <<>>]
    /\ pc' = "built"
    /\ UNCHANGED <<alg, buildings, uncovered, antennas, idx>>

(* A query; the index serves two in a row. *)
IndexQuery ==
    /\ pc \in {"built", "queried"}
    /\ \E p \in QueryPoints, radius \in QueryRadii :
          aux' = [aux EXCEPT
                    !.x = p[1], !.y = p[2], !.radius = radius,
                    !.result = get_in_range(alg, aux.grid, p[1], p[2], radius, aux.cell_size),
                    !.grid = Touched(@, CellsAround(<<p[1] \div aux.cell_size,
                                                     p[2] \div aux.cell_size>>,
                                                   CellsScanned(alg, radius, aux.cell_size)))]
    /\ pc' = IF pc = "built" THEN "queried" ELSE "done"
    /\ UNCHANGED <<alg, buildings, uncovered, antennas, idx>>

NextIndex ==
    \/ IndexBuild
    \/ IndexQuery

SpecIndex == InitIndex /\ [][NextIndex]_vars

(* C22: for any query point, negative coordinates and cells without        *)
(* building included, and any radius >= 0, the spatial index query returns *)
(* exactly the ids of the indexed buildings whose squared distance to the  *)
(* point is <= radius squared, each once: the result of a brute-force scan *)
(* over all buildings.                                                     *)
C22_QueryIsBruteForce ==
    pc \in {"queried", "done"} =>
        /\ Elems(aux.result)
             = {bid \in AllIds :
                   dist_sq(aux.x, aux.y, BMap(bid).x, BMap(bid).y) <= aux.radius * aux.radius}
        /\ \A i, j \in 1..Len(aux.result) : aux.result[i] = aux.result[j] => i = j

(* A second query, from a point of negative coordinates in a cell without  *)
(* building, that returns a building of another cell and leaves out one    *)
(* that was scanned.                                                       *)
C22_Witness ==
    /\ pc = "done" /\ alg = "SpatialGrid"
    /\ aux.x = -150 /\ aux.y = -60 /\ aux.radius = 150
    /\ Len(buildings) = 3
    /\ BMap(1).x = -50 /\ BMap(2).x = 0 /\ BMap(3).x = 110
    /\ aux.result = <<1>>
    /\ aux.grid[<<-2, -1>>] = <<>>
    /\ <<0, 0>> \in DOMAIN aux.grid

---------------------------------------------------------------------------
(* solve_advanced on the dataset of two near buildings and a far one       *)

(* The sites of the dataset, and the demand profiles whose peak is 100. *)
NearNearFar == <<<<0, 0>>, <<30, 0>>, <<400, 0>>>>

PeakHundred == {<<100, 60, 20>>, <<60, 100, 20>>, <<20, 60, 100>>}

(* The dataset, its buildings listed in any order. *)
InitNearNearFar ==
    /\ alg = "solve_advanced"
    /\ pc = "start"
    /\ \E o \in Orders(3), rs \in [1..3 -> PeakHundred] :
          buildings = AsList([i \in 1..3 |-> Building(i, NearNearFar[o[i]], rs[i])])
    /\ uncovered = {buildings[i].id : i \in 1..Len(buildings)}
    /\ antennas = <<>>
    /\ idx = 1
    /\ aux = <<>>

NextNearNearFar ==
    \/ AdvancedPhase1
    \/ AdvancedIterate
    \/ AdvancedReturn

SpecNearNearFar == InitNearNearFar /\ [][NextNearNearFar]_vars

(* The id of the building at site p. *)
At(p) == CHOOSE bid \in AllIds : <<BMap(bid).x, BMap(bid).y>> = p

(* C23: on the dataset with three buildings at (0,0), (30,0) and (400,0),  *)
(* each of demand 100, solve_advanced returns exactly two antennas: one    *)
(* Nano located at one of the first two buildings and serving exactly      *)
(* those two, and one separate antenna serving only the third building.    *)
C23_TwoNearOneFar ==
    pc = "done" =>
        /\ Len(antennas) = 2
        /\ \E k \in 1..2 :
              /\ antennas[k].type = "Nano"
              /\ <<antennas[k].x, antennas[k].y>> \in {NearNearFar[1], NearNearFar[2]}
              /\ Len(antennas[k].buildings) = 2
              /\ Elems(antennas[k].buildings) = {At(NearNearFar[1]), At(NearNearFar[2])}
              /\ antennas[3 - k].buildings = <<At(NearNearFar[3])>>

(* The run on the dataset listed far building first: the Nano goes to the  *)
(* near building of smaller id, the far building gets a Nano of its own.   *)
C23_Witness ==
    /\ pc = "done"
    /\ BMap(1).x = 400 /\ BMap(2).x = 30 /\ BMap(3).x = 0
    /\ antennas = <<Antenna("Nano", 30, 0, <<2, 3>>), Antenna("Nano", 400, 0, <<1>>)>>

---------------------------------------------------------------------------
(* The packing step of find_best_antenna                                   *)

(* Sites within and beyond the radius of a Nano, and demands of which two  *)
(* or three exceed its capacity.                                           *)
PackPoints == {<<0, 0>>, <<60, 0>>}

PackProfiles == {<<50, 20, 10>>, <<100, 60, 20>>, <<150, 100, 50>>}

InitPack ==
    /\ alg = "find_best_antenna"
    /\ pc = "start"
    /\ buildings \in Datasets(PackPoints, PackProfiles)
    /\ uncovered \in SUBSET {buildings[i].id : i \in 1..Len(buildings)}
    /\ antennas = <<>>
    /\ idx = 1
    /\ aux = <<>>

(* One type tried from the site of a building: the uncovered buildings in  *)
(* range, sorted by demand, packed into the type's capacity.               *)
PackApply ==
    /\ pc = "start"
    /\ \E site \in AllIds, t \in Types :
          aux' = [x |-> BMap(site).x, y |-> BMap(site).y, type |-> t,
                  in_range |-> InRangeOf(BMap(site).x, BMap(site).y, t, SetToSeq(uncovered)),
                  packed |-> Pack(InRangeOf(BMap(site).x, BMap(site).y, t,
                                             SetToSeq(uncovered)), t)]
    /\ pc' = "done"
    /\ UNCHANGED <<alg, buildings, uncovered, antennas, idx>>

NextPack == PackApply

SpecPack == InitPack /\ [][NextPack]_vars

RECURSIVE SumOfSet(_)
SumOfSet(S) == IF S = {} THEN 0 ELSE Pop(MinId(S)) + SumOfSet(S \ {MinId(S)})

(* C24: for a fixed position and type, the smallest-demand-first packing   *)
(* selects in-range uncovered buildings whose total demand is within the   *)
(* type's capacity, and as many of them as any subset of the in-range      *)
(* uncovered buildings whose total demand fits the capacity.               *)
C24_PackingIsLargest ==
    pc = "done" =>
        /\ Elems(aux.packed.selected) \subseteq
               {bid \in uncovered : InRange(aux.x, aux.y, aux.type, bid)}
        /\ \A i, j \in 1..Len(aux.packed.selected) :
               aux.packed.selected[i] = aux.packed.selected[j] => i = j
        /\ SumOfSet(Elems(aux.packed.selected)) <= Capacity(aux.type)
        /\ aux.packed.total_pop = SumOfSet(Elems(aux.packed.selected))
        /\ \A S \in SUBSET {bid \in uncovered : InRange(aux.x, aux.y, aux.type, bid)} :
               SumOfSet(S) <= Capacity(aux.type) =>
                   Cardinality(S) <= Len(aux.packed.selected)

(* A Nano tried over three buildings in range with demands 150, 100 and    *)
(* 100: the two of 100 are selected and fill it, the first is left out.    *)
C24_Witness ==
    /\ pc = "done" /\ aux.type = "Nano"
    /\ Len(buildings) = 3 /\ uncovered = {1, 2, 3}
    /\ Pop(1) = 150 /\ Pop(2) = 100 /\ Pop(3) = 100
    /\ aux.in_range = <<1, 2, 3>>
    /\ aux.packed = [selected |-> <<2, 3>>, total_pop |-> 200]

---------------------------------------------------------------------------
(* The candidates scored by one pass of greedy_solution                    *)

(* Every (position, type, selected) option of a pass with its score, in    *)
(* the order the pass meets them.                                          *)
GreedyOptions(sites) ==
    Flatten(AsList([k \in 1..Len(sites) |->
        OptionsAt(BMap(sites[k]).x, BMap(sites[k]).y, NanoFirst, sites, GreedyScore)]))

(* GreedyIterate, the options scored by the pass and the one it prefers    *)
(* being kept in aux.                                                      *)
GreedyScoredPass ==
    /\ alg = "greedy_solution" /\ pc = "start" /\ uncovered # {}
    /\ \E ant \in {OrFallback(GreedyBest(Uncov(ListIds, uncovered)), MinId(uncovered))} :
          IF ant # <<>>
          THEN /\ antennas' = Append(antennas, ant[1])
               /\ uncovered' = Discard(uncovered, ant[1])
               /\ pc' = "start"
          ELSE /\ pc' = "crashed"
               /\ UNCHANGED <<antennas, uncovered>>
    /\ aux' = [options |-> GreedyOptions(Uncov(ListIds, uncovered)),
               best_option |-> GreedyBest(Uncov(ListIds, uncovered))]
    /\ idx' = idx + 1
    /\ UNCHANGED <<alg, buildings>>

InitPreference == InitData({"greedy_solution"}, ServableProfiles)

NextPreference ==
    \/ GreedyScoredPass
    \/ GreedyReturn

SpecPreference == InitPreference /\ [][NextPreference]_vars

(* C25: in greedy_solution, of any two candidates of a pass, the one that  *)
(* covers strictly more buildings with a type that costs no more than the  *)
(* other's has the strictly higher score.                                  *)
C25_MoreAndCheaperScoresHigher ==
    aux # <<>> =>
        \A i, j \in 1..Len(aux.options) :
            (/\ Len(aux.options[i].buildings) > Len(aux.options[j].buildings)
             /\ Cost(aux.options[i].type) <= Cost(aux.options[j].type))
                => ScoreGT(aux.options[i], aux.options[j])

---------------------------------------------------------------------------
(* epitech_deep_optimize.apply_optimizations *)

(* find_downgrade_opportunities: the first type of Nano, Spot, MaxRange,   *)
(* Density that is cheaper than the antenna's and holds its buildings from *)
(* its position, or none.                                                  *)
find_downgrade_opportunities(a) ==
    FirstOf(SelectSeq(<<"Nano", "Spot", "MaxRange", "Density">>, LAMBDA t :
        /\ ~(Capacity(t) < SumPop(a.buildings))
        /\ ~(Cost(t) >= Cost(a.type))
        /\ \A k \in 1..Len(a.buildings) : InRange(a.x, a.y, t, a.buildings[k])))

(* Phase 1: antennas[i]['type'] = new_type for every opportunity. *)
DeepDowngraded(sol) ==
    AsList([i \in 1..Len(sol) |->
        IF find_downgrade_opportunities(sol[i]) = <<>> THEN sol[i]
        ELSE [sol[i] EXCEPT !.type = find_downgrade_opportunities(sol[i])[1]]])

(* if savings > 0 *)
Saves(savings) == savings > 0

(* find_absorption_opportunities: for every single-building antenna i and  *)
(* every other antenna j of the cells within 3 of i's, the first type that *)
(* holds j's buildings and i's building from j's position, when it saves.  *)
find_absorption_opportunities(sol) ==
    LET singles == SelectSeq(Indices(sol), LAMBDA i : Len(sol[i].buildings) = 1)
        for_i(i) ==
            LET js == SelectSeq(AntScan(sol, AntCell(sol[i], 200), 3, 200), LAMBDA j : j # i)
            IN  Flatten(AsList([n \in 1..Len(js) |->
                    SelectSeq(AbsorbInto(sol, i, js[n]), LAMBDA o : Saves(o.savings))]))
    IN  Flatten(AsList([n \in 1..Len(singles) |-> for_i(singles[n])]))

(* if source_i in absorbed or target_j in absorbed: continue *)
AbsorptionSkipped(o, absorbed, received) == o.si \in absorbed \/ o.ti \in absorbed

RECURSIVE ApplyAbsorptions(_, _, _, _)
(* The apply loop of phase 2: the building of the source is appended to    *)
(* the target, which takes the type of the opportunity.                    *)
ApplyAbsorptions(ops, sol, absorbed, received) ==
    IF ops = <<>> THEN [applied |-> sol, absorbed |-> absorbed, received |-> received]
    ELSE IF AbsorptionSkipped(Head(ops), absorbed, received)
         THEN ApplyAbsorptions(Tail(ops), sol, absorbed, received)
         ELSE ApplyAbsorptions(Tail(ops),
                  [sol EXCEPT ![Head(ops).ti] =
                      [@ EXCEPT !.buildings = Append(@, sol[Head(ops).si].buildings[1]),
                                !.type = Head(ops).type]],
                  absorbed \cup {Head(ops).si}, received \cup {Head(ops).ti})

(* absorptions.sort(key=lambda x: -x[3]) *)
BySavings(ops) == SortLT(ops, LAMBDA a, b : a.savings > b.savings)

(* find_merge_opportunities: for every pair i < j of the cells within 3 of *)
(* i's and each of the two positions, the first type that holds the        *)
(* buildings of both, when it saves.                                       *)
find_merge_opportunities(sol) ==
    LET at(i, j, p) ==
            LET ts == FirstValidType(NanoFirst, p[1], p[2], sol[i].buildings \o sol[j].buildings)
            IN  IF ts = <<>> THEN <<>>
                ELSE IF Cost(sol[i].type) + Cost(sol[j].type) - Cost(ts[1]) > 0
                     THEN <<[i |-> i, j |-> j, type |-> ts[1], pos |-> p,
                             savings |-> Cost(sol[i].type) + Cost(sol[j].type) - Cost(ts[1])]>>
                     ELSE <<>>
        for_i(i) ==
            LET js == SelectSeq(AntScan(sol, AntCell(sol[i], 200), 3, 200), LAMBDA j : ~(j <= i))
            IN  Flatten(AsList([n \in 1..Len(js) |->
                    at(i, js[n], <<sol[i].x, sol[i].y>>)
                        \o at(i, js[n], <<sol[js[n]].x, sol[js[n]].y>>)]))
    IN  Flatten(AsList([i \in 1..Len(sol) |-> for_i(i)]))

RECURSIVE MergeList(_, _, _)
(* The merges kept: greedily by savings, no antenna in two of them. *)
MergeList(ops, merged, kept) ==
    IF ops = <<>> THEN [merged |-> merged, merge_list |-> kept]
    ELSE IF Head(ops).i \in merged \/ Head(ops).j \in merged
         THEN MergeList(Tail(ops), merged, kept)
         ELSE MergeList(Tail(ops), merged \cup {Head(ops).i, Head(ops).j},
                        Append(kept, Head(ops)))

(* Phase 3: the merged antennas first, then the others in their order. *)
DeepMerged(sol) ==
    LET m == MergeList(BySavings(find_merge_opportunities(sol)), {}, <<>>)
    IN  AsList([k \in 1..Len(m.merge_list) |->
            Antenna(m.merge_list[k].type, m.merge_list[k].pos[1], m.merge_list[k].pos[2],
                    sol[m.merge_list[k].i].buildings \o sol[m.merge_list[k].j].buildings)])
        \o Without(sol, m.merged)

(* Sites and demands of the solutions given to apply_optimizations: sites  *)
(* 40 apart, within the radius of a Nano of their neighbour.               *)
DeepPoints == {<<0, 0>>, <<0, 40>>, <<0, 80>>}

InitDeep ==
    /\ alg = "apply_optimizations"
    /\ pc = "start"
    /\ buildings \in Datasets(DeepPoints, FastProfiles)
    /\ uncovered = {}
    /\ antennas \in FeasibleSolutions(AllIds)
    /\ idx = 1
    /\ aux = <<>>

(* Phase 1 *)
DeepDowngrade ==
    /\ alg = "apply_optimizations" /\ pc = "start"
    /\ antennas' = DeepDowngraded(antennas)
    /\ aux' = [input |-> antennas]
    /\ pc' = "downgraded"
    /\ UNCHANGED <<alg, buildings, uncovered, idx>>

(* Phase 2; applied is the list before the absorbed antennas are removed. *)
DeepAbsorb ==
    /\ alg = "apply_optimizations" /\ pc = "downgraded"
    /\ \E r \in {ApplyAbsorptions(BySavings(find_absorption_opportunities(antennas)),
                                  antennas, {}, {})} :
          /\ antennas' = Without(r.applied, r.absorbed)
          /\ aux' = [input |-> aux.input, downgraded |-> antennas, applied |-> r.applied,
                     absorbed |-> r.absorbed, received |-> r.received]
    /\ pc' = "absorbed"
    /\ UNCHANGED <<alg, buildings, uncovered, idx>>

(* Phase 3 and the return. *)
DeepMerge ==
    /\ alg = "apply_optimizations" /\ pc = "absorbed"
    /\ antennas' = DeepMerged(antennas)
    /\ pc' = "done"
    /\ UNCHANGED <<alg, buildings, uncovered, idx, aux>>

NextDeep ==
    \/ DeepDowngrade
    \/ DeepAbsorb
    \/ DeepMerge

SpecDeep == InitDeep /\ [][NextDeep]_vars

(* C26: after the absorption phase of apply_optimizations on a feasible    *)
(* solution, every receiving antenna, one that received the buildings of   *)
(* several single-building antennas included, has a total demand within    *)
(* the capacity of its final type and all its buildings within that type's *)
(* radius of its position.                                                 *)
C26_ReceiversFeasible ==
    pc = "absorbed" =>
        \A j \in aux.received \ aux.absorbed :
            CapacityOk(aux.applied[j]) /\ RangeOk(aux.applied[j])

---------------------------------------------------------------------------
(* optimize_suburbia_final.try_reassign_buildings and                      *)
(* optimize_suburbia_v3.solve_iterative_improve                            *)

(* The target ti tried for the building of single si: the first type of    *)
(* Density, MaxRange, Spot, Nano that holds ti's buildings and si's from   *)
(* ti's position, with the savings of the reassignment.                    *)
ReassignOption(sol, si, ti) ==
    LET ts == FirstValidType(<<"Density", "MaxRange", "Spot", "Nano">>, sol[ti].x, sol[ti].y,
                             Append(sol[ti].buildings, sol[si].buildings[1]))
    IN  IF ts = <<>> THEN <<>>
        ELSE <<[ti |-> ti, type |-> ts[1],
                savings |-> Cost(sol[si].type) + Cost(sol[ti].type) - Cost(ts[1])]>>

RECURSIVE ReassignBest(_, _)
(* if savings > best_savings, from best_savings = 0 *)
ReassignBest(opts, best) ==
    IF opts = <<>> THEN best
    ELSE IF Head(opts).savings > (IF best = <<>> THEN 0 ELSE best[1].savings)
         THEN ReassignBest(Tail(opts), <<Head(opts)>>)
         ELSE ReassignBest(Tail(opts), best)

(* best_target of single si: over the antennas of the cells within 3 of    *)
(* si's that are not si and not removed.                                   *)
ReassignTarget(sol, si, removed) ==
    LET tis == SelectSeq(AntScan(sol, AntCell(sol[si], 200), 3, 200),
                         LAMBDA ti : ~(ti = si \/ ti \in removed))
    IN  ReassignBest(Flatten(AsList([n \in 1..Len(tis) |-> ReassignOption(sol, si, tis[n])])),
                     <<>>)

RECURSIVE ReassignFrom(_, _, _)
(* for si in single_indices: the single is skipped when removed, else its  *)
(* first building goes to its best target and the single is removed.       *)
ReassignFrom(singles, sol, removed) ==
    IF singles = <<>> THEN [antennas |-> sol, removed |-> removed]
    ELSE IF Head(singles) \in removed \/ ReassignTarget(sol, Head(singles), removed) = <<>>
         THEN ReassignFrom(Tail(singles), sol, removed)
         ELSE LET best_target == ReassignTarget(sol, Head(singles), removed)[1]
              IN  ReassignFrom(Tail(singles),
                      [sol EXCEPT ![best_target.ti] =
                          [@ EXCEPT !.buildings = Append(@, sol[Head(singles)].buildings[1]),
                                    !.type = best_target.type]],
                      removed \cup {Head(singles)})

(* single_indices = [i for i, a in enumerate(antennas) if len(a['buildings']) == 1] *)
single_indices(sol) == SelectSeq(Indices(sol), LAMBDA i : Len(sol[i].buildings) = 1)

(* try_reassign_buildings *)
try_reassign_buildings(sol) ==
    LET r == ReassignFrom(single_indices(sol), sol, {})
    IN  [result |-> Without(r.antennas, r.removed), reassignments |-> Cardinality(r.removed)]

(* The first antenna, other than the single and not None, whose type reaches      *)
(* building bid and has room for it.                                       *)
ImproveTarget(sol, single, removed) ==
    FirstOf(SelectSeq(Indices(sol), LAMBDA i :
        /\ ~(i \in removed \/ i = single)
        /\ ~(dist_sq(sol[i].x, sol[i].y, BMap(sol[single].buildings[1]).x,
                     BMap(sol[single].buildings[1]).y) > Range(sol[i].type) * Range(sol[i].type))
        /\ SumPop(sol[i].buildings) + Pop(sol[single].buildings[1]) <= Capacity(sol[i].type)
        /\ Cost(sol[single].type) > 0))

RECURSIVE ImproveFrom(_, _, _)
(* for idx, ant in single_antennas: skipped when antennas[idx] is None,    *)
(* else its first building is appended to the target and antennas[idx]     *)
(* becomes None.                                                           *)
ImproveFrom(singles, sol, removed) ==
    IF singles = <<>> THEN [antennas |-> sol, removed |-> removed]
    ELSE IF Head(singles) \in removed \/ ImproveTarget(sol, Head(singles), removed) = <<>>
         THEN ImproveFrom(Tail(singles), sol, removed)
         ELSE ImproveFrom(Tail(singles),
                  [sol EXCEPT ![ImproveTarget(sol, Head(singles), removed)[1]] =
                      [@ EXCEPT !.buildings = Append(@, sol[Head(singles)].buildings[1])]],
                  removed \cup {Head(singles)})

InitReassign ==
    /\ alg \in {"try_reassign_buildings", "solve_iterative_improve"}
    /\ pc = "start"
    /\ buildings \in Datasets(DeepPoints, FastProfiles)
    /\ uncovered = {}
    /\ antennas \in FeasibleSolutions(AllIds)
    /\ idx = 1
    /\ aux = <<>>

(* The call of try_reassign_buildings. *)
ReassignApply ==
    /\ alg = "try_reassign_buildings" /\ pc = "start"
    /\ antennas' = try_reassign_buildings(antennas).result
    /\ aux' = [input |-> antennas,
               reassignments |-> try_reassign_buildings(antennas).reassignments]
    /\ pc' = "done"
    /\ UNCHANGED <<alg, buildings, uncovered, idx>>

(* improved = True; iterations = 0 *)
ImproveStart ==
    /\ alg = "solve_iterative_improve" /\ pc = "start"
    /\ aux' = [input |-> antennas, improved |-> TRUE, iterations |-> 0]
    /\ pc' = "loop"
    /\ UNCHANGED <<alg, buildings, uncovered, antennas, idx>>

(* One pass of 'while improved and iterations < 100', clean-up included. *)
ImprovePass ==
    /\ alg = "solve_iterative_improve" /\ pc = "loop"
    /\ aux.improved /\ aux.iterations < 100
    /\ \E r \in {ImproveFrom(single_indices(antennas), antennas, {})} :
          /\ antennas' = Without(r.antennas, r.removed)
          /\ aux' = [aux EXCEPT !.improved = r.removed # {}, !.iterations = @ + 1]
    /\ UNCHANGED <<alg, pc, buildings, uncovered, idx>>

(* return antennas *)
ImproveReturn ==
    /\ alg = "solve_iterative_improve" /\ pc = "loop"
    /\ ~(aux.improved /\ aux.iterations < 100)
    /\ pc' = "done"
    /\ UNCHANGED <<alg, buildings, uncovered, antennas, idx, aux>>

NextReassign ==
    \/ ReassignApply
    \/ ImproveStart
    \/ ImprovePass
    \/ ImproveReturn

SpecReassign == InitReassign /\ [][NextReassign]_vars

(* C27: a pass of try_reassign_buildings or of solve_iterative_improve     *)
(* over a feasible solution never drops a building: every building is in  *)
(* some antenna of the solution the pass leaves, also when an antenna that *)
(* was single-building at the start of the pass has received a building    *)
(* and is then removed as a source.                                        *)
C27_PassKeepsBuildings ==
    [][\A bid \in AllIds :
          (\E k \in 1..Len(antennas) : bid \in Elems(antennas[k].buildings))
              => (\E k \in 1..Len(antennas') : bid \in Elems(antennas'[k].buildings))]_vars

---------------------------------------------------------------------------
(* suburbia_sa_v2.validate_solution_fast on arbitrary candidates           *)

(* The datasets of two buildings. *)
ValidatedData == {d \in Datasets(SolvedPoints, SolvedProfiles) : Len(d) = 2}

(* An id no building has. *)
UnknownId == Len(buildings) + 1

(* Building lists of a candidate antenna: empty, with an unknown id, with  *)
(* an id twice.                                                            *)
CandidateLists == UNION {[1..n -> AllIds \cup {UnknownId}] : n \in 0..2}

CandidateAntennas ==
    {Antenna(t, buildings[site].x, buildings[site].y, AsList(bs)) :
        t \in {"Nano", "Density"}, site \in 1..Len(buildings), bs \in CandidateLists}

Candidates == UNION {[1..n -> CandidateAntennas] : n \in 0..2}

InitValidate ==
    /\ alg = "validate_solution_fast"
    /\ pc = "start"
    /\ buildings \in ValidatedData
    /\ uncovered = {}
    /\ antennas \in {AsList(c) : c \in Candidates}
    /\ idx = 1
    /\ aux = <<>>

(* The call validate_solution_fast(antennas, bmap, all_building_ids). *)
ValidateApply ==
    /\ alg = "validate_solution_fast" /\ pc = "start"
    /\ aux' = [valid |-> validate_solution_fast(antennas)]
    /\ pc' = "done"
    /\ UNCHANGED <<alg, buildings, uncovered, antennas, idx>>

NextValidate == ValidateApply

SpecValidate == InitValidate /\ [][NextValidate]_vars

(* Every id of the candidate is a building's, every building is in exactly *)
(* one list exactly once, and every antenna is non-empty, within range and *)
(* within capacity.                                                        *)
SatisfiesConstraints(sol) ==
    /\ \A k \in 1..Len(sol) : Elems(sol[k].buildings) \subseteq AllIds
    /\ Partition(sol)
    /\ \A k \in 1..Len(sol) : Feasible(sol[k])

(* C28: validate_solution_fast returns True exactly for the candidates     *)
(* that satisfy partition, range and capacity with no empty antenna; a     *)
(* candidate with a building id in two lists, or twice in one, is          *)
(* rejected.                                                               *)
C28_ValidExactlyWhenFeasible ==
    pc = "done" => (aux.valid <=> SatisfiesConstraints(antennas))

---------------------------------------------------------------------------
(* suburbia_sa_fast.simulated_annealing: the costs along a run             *)

(* C29: in suburbia_sa_fast every candidate try_merge and try_relocate can *)
(* give costs no more than the working solution, the working cost does not *)
(* increase over an iteration, and the best cost is the working cost       *)
(* before and after every iteration.                                       *)
C29_CostNeverRises ==
    [][(alg = "suburbia_sa_fast" /\ pc = "anneal") =>
          /\ \A new_sol \in SAFastMoves(antennas) :
                new_sol # <<>> => calculate_cost(new_sol[1]) <= aux.current_cost
          /\ aux.current_cost = calculate_cost(antennas)
          /\ aux'.current_cost <= aux.current_cost
          /\ aux.best_cost = aux.current_cost
          /\ aux'.best_cost = aux'.current_cost]_vars

(* A run of suburbia_sa_fast that accepted a candidate of the same cost    *)
(* as the working solution: the working solution is no longer the best     *)
(* one, and costs the same.                                                *)
C29_Witness ==
    /\ alg = "suburbia_sa_fast" /\ pc = "done"
    /\ aux.accepted >= 1 /\ aux.last = "accepted"
    /\ antennas # aux.best
    /\ aux.best_cost = aux.current_cost
    /\ calculate_cost(antennas) = calculate_cost(aux.best)

---------------------------------------------------------------------------
(* advanced_solution.try_merge_antennas: the scan and its end              *)

(* Three sites in a row, 90 apart. *)
ScanPoints == {<<0, 0>>, <<0, 90>>, <<0, 180>>}

ScanProfiles == {<<100, 60, 20>>}

(* The solutions handed to try_merge_antennas: the feasible ones, their    *)
(* antennas listed by ascending or by descending smallest building id.     *)
ScanInputs ==
    FeasibleSolutions(AllIds)
        \cup {AsList([k \in 1..Len(sol) |-> sol[Len(sol) + 1 - k]]) : sol \in FeasibleSolutions(AllIds)}

InitScan ==
    /\ alg = "try_merge_antennas"
    /\ pc = "start"
    /\ buildings \in Datasets(ScanPoints, ScanProfiles)
    /\ uncovered = {}
    /\ antennas \in ScanInputs
    /\ idx = 1
    /\ aux = <<>>

NextScan ==
    \/ TMBegin
    \/ TMExamine
    \/ TMNextRow
    \/ TMReturn

(* The loops of try_merge_antennas run without waiting on anything: a step *)
(* that can be taken is taken.                                             *)
SpecScan == InitScan /\ [][NextScan]_vars /\ WF_vars(NextScan)

(* The pairs (i, j), i < j, that come before (i0, j0) in the scan. *)
ScannedBefore(i0, j0) ==
    {p \in (1..Len(antennas)) \X (1..Len(antennas)) :
        p[1] < p[2] /\ (p[1] < i0 \/ (p[1] = i0 /\ p[2] < j0))}

(* Antennas a1 and a2 admit a strictly cheaper merge: some type, at the    *)
(* position of one of them, holds the buildings of both for less than the  *)
(* two cost.                                                               *)
AdmitsCheaperMerge(a1, a2) ==
    \E t \in Types, a \in {a1, a2} :
        /\ CapacityOk(Antenna(t, a.x, a.y, a1.buildings \o a2.buildings))
        /\ RangeOk(Antenna(t, a.x, a.y, a1.buildings \o a2.buildings))
        /\ Cost(t) < Cost(a1.type) + Cost(a2.type)

(* C30: try_merge_antennas terminates on every input; every accepted merge *)
(* lowers the number of antennas by one and leaves at least one, so n      *)
(* antennas see at most n - 1 merges; every pair the scan has passed since *)
(* it last started admits no strictly cheaper merge at either position,    *)
(* and at the return that is every pair.                                   *)
C30_ScanTerminates ==
    /\ <>(pc = "done")
    /\ [][antennas' # antennas =>
             Len(antennas') = Len(antennas) - 1 /\ Len(antennas') >= 1]_vars
    /\ [](pc = "scan" =>
             \A p \in ScannedBefore(idx, aux.j) : ~AdmitsCheaperMerge(antennas[p[1]], antennas[p[2]]))
    /\ [](pc = "done" =>
             \A i, j \in 1..Len(antennas) :
                 i < j => ~AdmitsCheaperMerge(antennas[i], antennas[j]))

(* A run from three single antennas, listed 3, 2, 1, that merged the first *)
(* two and ended after a scan in which the merged antenna and the third    *)
(* admit no cheaper merge.                                                 *)
C30_Witness ==
    /\ pc = "done"
    /\ Len(antennas) = 2
    /\ antennas[1].buildings = <<3, 2>>
    /\ antennas[2].buildings = <<1>>

(* A run from three single antennas that merged twice, n - 1 times. *)
C30_TwoMerges ==
    /\ pc = "done"
    /\ Len(antennas) = 1
    /\ antennas[1].buildings = <<3, 2, 1>>

====
